---- MODULE Spec2Model ----
(***************************************************************************)
(* LiveVisionKit: the SpatialMap<T> container (Structures/SpatialMap.tpp),  *)
(* the VSFilter frame-delay / trajectory buffers with enclose_crop and the *)
(* loop of reset_buffers, the FrameTracker's restart behaviour and the     *)
(* CompositeFilter's chain, as state machines.                             *)
(*                                                                         *)
(* Positions are given in half units (x = 3 is the coordinate 1.5), so     *)
(* that fractional positions on both sides of every region edge occur.     *)
(* Single-precision values are kept as a mantissa m and an exponent e      *)
(* (value m * 2^e, 2^23 <= m < 2^24) and every float division is rounded   *)
(* to nearest, ties to even, as IEEE-754 binary32 does.                    *)
(***************************************************************************)
EXTENDS Integers, Sequences, FiniteSets, TLC

VARIABLES
    m_MapResolution,   \* cv::Size   [width, height]
    m_InputRegion,     \* cv::Rect   [x, y, width, height]
    m_KeySize,         \* cv::Size_<float> [width, height], each a binary32
    m_Map,             \* std::vector<size_t>: cell index -> data link
    m_Data,            \* std::vector<std::pair<spatial_key, T>>
    ub,                \* TRUE once a call has run into undefined behaviour
    last,              \* the last call: [op, ret]
    live,              \* history: the keys placed and not removed afterwards
    probe,             \* the position handed to within_bounds / key_of, and the key returned
    quality,           \* the value distribution_quality() returned: [num, den]
    m_SmoothingRadius, \* uint32_t
    m_FrameQueue,      \* SlidingBuffer<FrameBuffer>: [capacity, items], oldest first
    m_Trajectory,      \* SlidingBuffer<FrameVector>: [capacity, items], oldest first
    m_CropProportion,  \* float, a binary32
    m_TestMode,        \* bool
    m_CropRegion,      \* cv::Rect [x, y, width, height]
    m_OutputSize,      \* cv::Size [width, height]
    vs_calls,          \* history: the process() calls since the buffers were last reset
    vs_next,           \* history: the number of the next frame the host hands in
    vs_out,            \* what the last process() returned: a frame number, 0 for nullptr
    vs_returned,       \* history: the host frames process() has returned to the host
    vs_released,       \* history: the host frames reset_buffers() has released
    vs_kept,           \* history: configure() has found the radius unchanged and the
                       \* stabilisation ready since the buffers were last reset
    vs_path,           \* history: the sum of the velocities track() returned since
                       \* the last reset_buffers()
    vs_tags,           \* history: for every trajectory element, the frame whose process()
                       \* call recorded it and the velocity track() returned (frame 0: seeded)
    ec_transform,      \* enclose_crop: the transform handed in, a translation [x, y] in pixels
    ec_reduced_transform, \* enclose_crop: reduced_transform, [x, y] in 1/100 pixel
    ec_frame_bounds,   \* enclose_crop: frame_bounds, [x, y, width, height] in 1/100 pixel
    ec_t,              \* enclose_crop: double t
    ec_iterations,     \* enclose_crop: history, the loop iterations made
    ec_pc,             \* enclose_crop: "idle", "loop" (at the loop test) or "done" (returned)
    m_FrameInitialized, \* FrameTracker: bool
    m_PreviousFrame,   \* FrameTracker: the number of the frame kept as previous, 0 for none
    m_TrackingQuality, \* FrameTracker: the inlier fraction of the last estimate, [inliers, matched]
    ft_next,           \* FrameTracker: history, the number of the next frame handed to track()
    ft_result,         \* FrameTracker: what the last track() returned, NoWarp or a warp [from, to]
    ft_fresh,          \* FrameTracker: history, no track() since construction or the last restart()
    filter_chain,      \* m_Settings.filter_chain: the filters, by their ids, in chain order
    m_FilterRunState,  \* std::vector<bool>
    m_FilterOutputs,   \* std::vector<Frame>
    cf_input,          \* the input frame, if the last call was CompositeFilter::process
    cf_output,         \* the caller's output frame after that process
    cf_invoked,        \* history: the filters that process invoked, each with its input
    cf_last,           \* the last CompositeFilter call: [op, arg]
    rb_pc,             \* reset_buffers: "idle", "loop" (at the loop test), "assert" (the
                       \* assertion failed) or "destroyed" (~VSFilter has returned)
    rb_caller,         \* reset_buffers: what called the running call, "none" when idle
    rb_iterations      \* reset_buffers: history, the iterations of the running call's loop,
                       \* counted modulo IterationWrap

mapVars == <<m_MapResolution, m_InputRegion, m_KeySize, m_Map, m_Data, ub, last, live>>

keyVars == <<probe, quality>>

vsVars == <<m_SmoothingRadius, m_FrameQueue, m_Trajectory, m_CropProportion, m_TestMode,
            m_CropRegion, m_OutputSize, vs_calls, vs_next, vs_out, vs_tags, vs_path,
            vs_kept, vs_returned, vs_released>>

cropVars == <<ec_transform, ec_reduced_transform, ec_frame_bounds, ec_t, ec_iterations, ec_pc>>

trackVars == <<m_FrameInitialized, m_PreviousFrame, m_TrackingQuality, ft_next, ft_result, ft_fresh>>

compVars == <<filter_chain, m_FilterRunState, m_FilterOutputs, cf_input, cf_output, cf_invoked,
              cf_last>>

resetVars == <<rb_pc, rb_caller, rb_iterations>>

vars == <<mapVars, keyVars, vsVars, cropVars, trackVars, compVars, resetVars>>

----------------------------------------------------------------------------
(* Bounds of the explored runs *)

\* the data array is not grown beyond this many entries
MaxData == 2

\* the values of T that are stored
Items == {1, 2}

\* the value of a default-constructed T, T{}
DefaultItem == 0

----------------------------------------------------------------------------
(* binary32 arithmetic *)

\* floor(log2(a / b)) for a >= b >= 1
RECURSIVE Log2Floor(_, _)
Log2Floor(a, b) == IF a < 2 * b THEN 0 ELSE 1 + Log2Floor(a, 2 * b)

\* static_cast<float>(a) / static_cast<float>(b) for integers a >= b >= 1:
\* the quotient rounded to 24 significant bits, nearest, ties to even.
float_div(a, b) ==
    LET s    == 24 - Log2Floor(a, b)
        Q    == (a * 2^s) \div b          \* 25 bits: 24 and a guard bit
        rem  == (a * 2^s) % b
        m0   == Q \div 2
        up   == (Q % 2 = 1) /\ (rem # 0 \/ m0 % 2 = 1)
        m1   == IF up THEN m0 + 1 ELSE m0
    IN  IF m1 = 2^24 THEN [m |-> 2^23, e |-> 2 - s] ELSE [m |-> m1, e |-> 1 - s]

\* static_cast<size_t>(static_cast<float>(p) / divisor) for the coordinate
\* p = pn / pd (pd a power of two, so the cast of p is exact) and the
\* binary32 divisor >= 1. The exact quotient is N / D; the division rounds it
\* up to the next integer T when it lies within half an ulp of T, and the
\* cast then truncates. A quotient in (-1, 0) truncates to 0.
float_div_trunc(pn, pd, divisor) ==
    IF pn < 0 THEN 0
    ELSE
    LET N     == pn * 2^(0 - divisor.e)
        D     == pd * divisor.m
        n0    == N \div D
        T     == n0 + 1
        delta == T * D - N
        j     == Log2Floor(2 * T - 1, 1) - 1     \* binade of the floats just below T
    IN  IF delta <= D \div 2^(24 - j) THEN T ELSE n0

\* the binary32 0.0f
float_zero == [m |-> 0, e |-> 0]

\* static_cast<float>(a) / 100.0f and the like, for integers 0 <= a < b < 128:
\* the quotient rounded to 24 significant bits, nearest, ties to even.
\* The quotient is scaled into [1, 2) by 2^up and divided in two stages of
\* 12 bits, which keeps every intermediate below 2^31.
float_div_fraction(a, b) ==
    IF a = 0 THEN float_zero
    ELSE
    LET up   == Log2Floor(2 * b - 1, a)   \* a * 2^up / b lies in [1, 2)
        n    == a * 2^up
        q1   == (n * 2^12) \div b
        r1   == (n * 2^12) % b
        Q    == q1 * 2^12 + (r1 * 2^12) \div b   \* 25 bits: 24 and a guard bit
        rem  == (r1 * 2^12) % b
        m0   == Q \div 2
        up1  == (Q % 2 = 1) /\ (rem # 0 \/ m0 % 2 = 1)
        m1   == IF up1 THEN m0 + 1 ELSE m0
    IN  IF m1 = 2^24 THEN [m |-> 2^23, e |-> 0 - up - 22]
        ELSE [m |-> m1, e |-> 0 - up - 23]

\* static_cast<uint32_t>(n * f) for an int 1 <= n < 128 and a binary32
\* 0 <= f < 1: n is converted exactly, the product is rounded to 24
\* significant bits (nearest, ties to even) and the cast truncates.
float_mul_trunc(n, f) ==
    IF f.m = 0 THEN 0
    ELSE
    LET P     == n * f.m
        k     == Log2Floor(P \div 2^23, 1)
        m0    == P \div 2^k
        rest  == P % 2^k
        half  == IF k = 0 THEN 1 ELSE 2^(k - 1)
        up1   == k > 0 /\ (rest > half \/ (rest = half /\ m0 % 2 = 1))
        m1    == IF up1 THEN m0 + 1 ELSE m0
        shift == 0 - (f.e + k)               \* the product is m1 / 2^shift
    IN  IF shift >= 31 THEN 0 ELSE m1 \div 2^shift

----------------------------------------------------------------------------
(* binary64 arithmetic *)

\* A double in (0, 2) that is a multiple of 2^-59 is kept as that multiple,
\* in three limbs of 20 bits: value (hi * 2^40 + mid * 2^20 + lo) * 2^-59.
Double(hi, mid, lo) == [hi |-> hi, mid |-> mid, lo |-> lo]

\* the exact value hi : mid : lo (limbs not yet carried) rounded to 53
\* significant bits, nearest, ties to even
double_round(hi, mid, lo) ==
    LET c_lo  == lo % 2^20
        c_mid == (mid + lo \div 2^20) % 2^20
        c_hi  == hi + (mid + lo \div 2^20) \div 2^20
        s     == IF c_hi < 2^13 THEN 0 ELSE Log2Floor(c_hi, 1) - 12   \* bits below the 53rd
        rest  == c_lo % 2^s
        kept  == c_lo - rest
        half  == IF s = 0 THEN 1 ELSE 2^(s - 1)
        up    == s > 0 /\ (rest > half \/ (rest = half /\ (kept \div 2^s) % 2 = 1))
        r_lo  == IF up THEN kept + 2^s ELSE kept
        r_mid == c_mid + r_lo \div 2^20
    IN  Double(c_hi + r_mid \div 2^20, r_mid % 2^20, r_lo % 2^20)

\* a + b in binary64
double_add(a, b) == double_round(a.hi + b.hi, a.mid + b.mid, a.lo + b.lo)

\* a <= b
double_le(a, b) ==
    \/ a.hi < b.hi
    \/ a.hi = b.hi /\ a.mid < b.mid
    \/ a.hi = b.hi /\ a.mid = b.mid /\ a.lo <= b.lo

\* a / d in binary64 for an integer 2 <= d < 128 and a quotient in
\* [2^-7, 2^-6): the quotient's last bit is 2^-59, so the long division
\* over the limbs is rounded on its remainder
double_div(a, d) ==
    LET q_hi  == a.hi \div d
        r_hi  == a.hi % d
        q_mid == (r_hi * 2^20 + a.mid) \div d
        r_mid == (r_hi * 2^20 + a.mid) % d
        q_lo  == (r_mid * 2^20 + a.lo) \div d
        r_lo  == (r_mid * 2^20 + a.lo) % d
        up    == 2 * r_lo > d \/ (2 * r_lo = d /\ q_lo % 2 = 1)
    IN  double_round(q_hi, q_mid, IF up THEN q_lo + 1 ELSE q_lo)

----------------------------------------------------------------------------
(* SpatialMap<T>: helpers *)

\* std::numeric_limits<size_t>::max() in the header; any value that is no index
m_EmptySymbol == -1

Key(x, y) == [x |-> x, y |-> y]

\* index_2d(key.x, key.y, resolution.width)
resolve_spatial_key(key, resolution) == key.y * resolution.width + key.x

is_key_valid(key, resolution) ==
    key.x < resolution.width /\ key.y < resolution.height

is_data_link_empty(link) == link = m_EmptySymbol

fetch_data_link(map, key, resolution) == map[resolve_spatial_key(key, resolution)]

\* contains(key), for a valid key
contains(map, key, resolution) ==
    ~is_data_link_empty(fetch_data_link(map, key, resolution))

\* between<int>(v, lo, hi): lo <= v <= hi
between(v, lo, hi) == lo <= v /\ v <= hi

\* static_cast<int>(position.x) for a coordinate in half units: toward zero
cast_int(c) == IF c >= 0 THEN c \div 2 ELSE 0 - ((0 - c) \div 2)

within_bounds(position, region) ==
    LET br == [x |-> region.x + region.width, y |-> region.y + region.height]
    IN  /\ between(cast_int(position.x), region.x, br.x - 1)
        /\ between(cast_int(position.y), region.y, br.y - 1)

\* simplify_key(point, key_size), point coordinates in units of 1 / den
simplify_key(px, py, den, key_size) ==
    Key(float_div_trunc(px, den, key_size.width),
        float_div_trunc(py, den, key_size.height))

\* key_of(position), for a position that is within_bounds
key_of(position, region, key_size) ==
    simplify_key(position.x - 2 * region.x, position.y - 2 * region.y, 2, key_size)

Entry(key, item) == [key |-> key, item |-> item]

\* m_Data.emplace(m_Data.begin() + i, e): e is inserted before index i and
\* the entries from i on move up by one
vector_emplace(data, i, e) ==
    SubSeq(data, 1, i) \o <<e>> \o SubSeq(data, i + 1, Len(data))

\* place_at(key, item) on a valid key. An iterator beyond end() handed to
\* emplace is undefined behaviour.
place_at(map, data, resolution, key, item) ==
    LET cell      == resolve_spatial_key(key, resolution)
        data_link == map[cell]
    IN  IF is_data_link_empty(data_link)
        THEN [map  |-> [map EXCEPT ![cell] = Len(data)],
              data |-> Append(data, Entry(key, item)),
              ub   |-> FALSE]
        ELSE IF data_link <= Len(data)
        THEN [map  |-> map,
              data |-> vector_emplace(data, data_link, Entry(key, item)),
              ub   |-> FALSE]
        ELSE [map |-> map, data |-> data, ub |-> TRUE]

\* emplace_at(key, args...): the same steps with T{args...} as the item
emplace_at(map, data, resolution, key, item) ==
    LET cell      == resolve_spatial_key(key, resolution)
        data_link == map[cell]
    IN  IF is_data_link_empty(data_link)
        THEN [map  |-> [map EXCEPT ![cell] = Len(data)],
              data |-> Append(data, Entry(key, item)),
              ub   |-> FALSE]
        ELSE IF data_link <= Len(data)
        THEN [map  |-> map,
              data |-> vector_emplace(data, data_link, Entry(key, item)),
              ub   |-> FALSE]
        ELSE [map |-> map, data |-> data, ub |-> TRUE]

\* std::swap of the entries at the 0-based indices i and j
vector_swap(data, i, j) ==
    [data EXCEPT ![i + 1] = data[j + 1], ![j + 1] = data[i + 1]]

\* remove(key) on a contained key. back() and pop_back() on an empty vector
\* and m_Data[i] with i >= size() are undefined behaviour. The link that is
\* "repointed" is fetched with key, not with replace_key: it is the removed
\* key's own link, which is cleared right after.
remove(map, data, resolution, key) ==
    LET cell           == resolve_spatial_key(key, resolution)
        item_data_link == map[cell]
        back           == data[Len(data)]
    IN  IF Len(data) = 0
        THEN [map |-> map, data |-> data, ub |-> TRUE]
        ELSE IF key # back.key /\ item_data_link >= Len(data)
        THEN [map |-> map, data |-> data, ub |-> TRUE]
        ELSE
        LET swapped == IF key # back.key
                       THEN vector_swap(data, item_data_link, Len(data) - 1)
                       ELSE data
            relinked == IF key # back.key
                        THEN [map EXCEPT ![cell] = item_data_link]
                        ELSE map
        IN  [map  |-> [relinked EXCEPT ![cell] = m_EmptySymbol],
             data |-> SubSeq(swapped, 1, Len(swapped) - 1),
             ub   |-> FALSE]

\* the loop of rescale: the old entries with a key that is still valid are
\* placed again, in the order of the old data array
RECURSIVE reinsert(_, _, _, _, _)
reinsert(map, data, resolution, old_data, i) ==
    IF i > Len(old_data) THEN [map |-> map, data |-> data, ub |-> FALSE]
    ELSE IF is_key_valid(old_data[i].key, resolution)
         THEN LET r == place_at(map, data, resolution, old_data[i].key, old_data[i].item)
              IN  reinsert(r.map, r.data, resolution, old_data, i + 1)
         ELSE reinsert(map, data, resolution, old_data, i + 1)

key_size_of(resolution, region) ==
    [width  |-> float_div(region.width, resolution.width),
     height |-> float_div(region.height, resolution.height)]

empty_map(resolution) ==
    [c \in 0 .. (resolution.width * resolution.height - 1) |-> m_EmptySymbol]

\* at(key), for a contained key: the values the call can return. A link
\* beyond the data array reads storage past the end of the vector.
at(map, data, resolution, key) ==
    LET link == fetch_data_link(map, key, resolution)
    IN  IF link < Len(data) THEN {data[link + 1].item} ELSE Items \cup {DefaultItem}

size(data) == Len(data)

is_empty(data) == Len(data) = 0

capacity(map) == Cardinality(DOMAIN map)

----------------------------------------------------------------------------
(* SpatialMap<T>: the calls *)

\* the geometry the map is constructed with: SpatialMap(resolution, input_region)
InitResolution == [width |-> 2, height |-> 2]
InitRegion == [x |-> 0, y |-> 0, width |-> 4, height |-> 3]

\* the geometries handed to rescale
Geometries ==
    { [resolution |-> InitResolution, region |-> InitRegion],
      [resolution |-> [width |-> 1, height |-> 2], region |-> InitRegion],
      [resolution |-> [width |-> 3, height |-> 1],
       region |-> [x |-> -1, y |-> 0, width |-> 4, height |-> 2]] }

\* every key of some geometry
Keys == { Key(x, y) : x \in 0 .. 2, y \in 0 .. 1 }

ValidKeys == { k \in Keys : is_key_valid(k, m_MapResolution) }

\* positions, in half units, on both sides of every edge of every region
Positions == { [x |-> x, y |-> y] : x \in {-1, 1, 5, 8}, y \in {-1, 1, 4, 6} }

Call(op, ret) == [op |-> op, ret |-> ret]

MapInit ==
    /\ m_MapResolution = InitResolution
    /\ m_InputRegion = InitRegion
    /\ m_KeySize = key_size_of(InitResolution, InitRegion)
    /\ m_Map = empty_map(InitResolution)
    /\ m_Data = <<>>
    /\ ub = FALSE
    /\ last = Call("SpatialMap", TRUE)
    /\ live = {}

\* the state after a call that went through place_at / emplace_at / remove
Commit(r, op, ret, nowLive) ==
    /\ m_Map' = r.map
    /\ m_Data' = r.data
    /\ ub' = r.ub
    /\ last' = Call(op, ret)
    /\ live' = IF r.ub THEN live ELSE nowLive
    /\ UNCHANGED <<m_MapResolution, m_InputRegion, m_KeySize>>

PlaceAt(key, item) ==
    /\ ~ub
    /\ Len(m_Data) < MaxData
    /\ is_key_valid(key, m_MapResolution)
    /\ Commit(place_at(m_Map, m_Data, m_MapResolution, key, item),
              "place_at", TRUE, live \cup {key})

EmplaceAt(key, item) ==
    /\ ~ub
    /\ Len(m_Data) < MaxData
    /\ is_key_valid(key, m_MapResolution)
    /\ Commit(emplace_at(m_Map, m_Data, m_MapResolution, key, item),
              "emplace_at", TRUE, live \cup {key})

Place(position, item) ==
    /\ ~ub
    /\ Len(m_Data) < MaxData
    /\ within_bounds(position, m_InputRegion)
    /\ LET key == key_of(position, m_InputRegion, m_KeySize)
       IN  /\ is_key_valid(key, m_MapResolution)
           /\ Commit(place_at(m_Map, m_Data, m_MapResolution, key, item),
                     "place", TRUE, live \cup {key})

Emplace(position, item) ==
    /\ ~ub
    /\ Len(m_Data) < MaxData
    /\ within_bounds(position, m_InputRegion)
    /\ LET key == key_of(position, m_InputRegion, m_KeySize)
       IN  /\ is_key_valid(key, m_MapResolution)
           /\ Commit(emplace_at(m_Map, m_Data, m_MapResolution, key, item),
                     "emplace", TRUE, live \cup {key})

Remove(key) ==
    /\ ~ub
    /\ is_key_valid(key, m_MapResolution)
    /\ contains(m_Map, key, m_MapResolution)
    /\ Commit(remove(m_Map, m_Data, m_MapResolution, key),
              "remove", TRUE, live \ {key})

TryPlace(position, item) ==
    /\ ~ub
    /\ IF within_bounds(position, m_InputRegion)
       THEN /\ Len(m_Data) < MaxData
            /\ LET key == key_of(position, m_InputRegion, m_KeySize)
               IN  /\ is_key_valid(key, m_MapResolution)
                   /\ Commit(place_at(m_Map, m_Data, m_MapResolution, key, item),
                             "try_place", TRUE, live \cup {key})
       ELSE /\ last' = Call("try_place", FALSE)
            /\ UNCHANGED <<m_MapResolution, m_InputRegion, m_KeySize, m_Map, m_Data, ub, live>>

TryEmplace(position, item) ==
    /\ ~ub
    /\ IF within_bounds(position, m_InputRegion)
       THEN /\ Len(m_Data) < MaxData
            /\ LET key == key_of(position, m_InputRegion, m_KeySize)
               IN  /\ is_key_valid(key, m_MapResolution)
                   /\ Commit(emplace_at(m_Map, m_Data, m_MapResolution, key, item),
                             "try_emplace", TRUE, live \cup {key})
       ELSE /\ last' = Call("try_emplace", FALSE)
            /\ UNCHANGED <<m_MapResolution, m_InputRegion, m_KeySize, m_Map, m_Data, ub, live>>

TryRemove(key) ==
    /\ ~ub
    /\ is_key_valid(key, m_MapResolution)
    /\ IF contains(m_Map, key, m_MapResolution)
       THEN Commit(remove(m_Map, m_Data, m_MapResolution, key),
                   "try_remove", TRUE, live \ {key})
       ELSE /\ last' = Call("try_remove", FALSE)
            /\ UNCHANGED <<m_MapResolution, m_InputRegion, m_KeySize, m_Map, m_Data, ub, live>>

\* rescale(resolution, input_region) with arguments that pass its assertions
Rescale(resolution, input_region) ==
    /\ ~ub
    /\ resolution.width >= 1
    /\ resolution.height >= 1
    /\ input_region.width >= resolution.width
    /\ input_region.height >= resolution.height
    /\ last' = Call("rescale", TRUE)
    /\ ub' = ub
    /\ IF resolution # m_MapResolution \/ input_region # m_InputRegion
       THEN LET r == reinsert(empty_map(resolution), <<>>, resolution, m_Data, 1)
            IN  /\ m_InputRegion' = input_region
                /\ m_MapResolution' = resolution
                /\ m_KeySize' = key_size_of(resolution, input_region)
                /\ m_Map' = r.map
                /\ m_Data' = r.data
                /\ live' = { k \in live : is_key_valid(k, resolution) }
       ELSE UNCHANGED <<m_MapResolution, m_InputRegion, m_KeySize, m_Map, m_Data, live>>

Clear ==
    /\ ~ub
    /\ m_Data' = <<>>
    /\ m_Map' = [c \in DOMAIN m_Map |-> m_EmptySymbol]
    /\ last' = Call("clear", TRUE)
    /\ live' = {}
    /\ UNCHANGED <<m_MapResolution, m_InputRegion, m_KeySize, ub>>

\* LVK_ASSERT fails on entry of the call op: nothing has been written, and
\* the call does not return (recorded as ret = FALSE of a call that is not try_*)
Fail(op) ==
    /\ ~ub
    /\ last' = Call(op, FALSE)
    /\ UNCHANGED <<m_MapResolution, m_InputRegion, m_KeySize, m_Map, m_Data, ub, live>>

\* place_at(key, item) with a key that fails LVK_ASSERT(is_key_valid(key))
PlaceAtInvalid(key, item) ==
    /\ ~is_key_valid(key, m_MapResolution)
    /\ Fail("place_at")

\* emplace_at(key, args...) with a key that fails LVK_ASSERT(is_key_valid(key))
EmplaceAtInvalid(key, item) ==
    /\ ~is_key_valid(key, m_MapResolution)
    /\ Fail("emplace_at")

\* place(position, item) with a position that fails LVK_ASSERT(within_bounds(position))
PlaceOutside(position, item) ==
    /\ ~within_bounds(position, m_InputRegion)
    /\ Fail("place")

\* emplace(position, args...) with a position that fails LVK_ASSERT(within_bounds(position))
EmplaceOutside(position, item) ==
    /\ ~within_bounds(position, m_InputRegion)
    /\ Fail("emplace")

\* remove(key) with a key that fails LVK_ASSERT(contains(key)), or the
\* LVK_ASSERT(is_key_valid(key)) inside contains
RemoveAbsent(key) ==
    /\ ~(is_key_valid(key, m_MapResolution) /\ contains(m_Map, key, m_MapResolution))
    /\ Fail("remove")

\* at(key)
At(key) ==
    /\ ~ub
    /\ IF is_key_valid(key, m_MapResolution) /\ contains(m_Map, key, m_MapResolution)
       THEN /\ at(m_Map, m_Data, m_MapResolution, key) # {}
            /\ last' = Call("at", TRUE)
            /\ UNCHANGED <<m_MapResolution, m_InputRegion, m_KeySize, m_Map, m_Data, ub, live>>
       ELSE Fail("at")

\* operator[](position): key_of asserts within_bounds(position); a key that
\* is not contained gets a default-constructed item, else at(key) is returned
Index(position) ==
    /\ ~ub
    /\ IF within_bounds(position, m_InputRegion)
       THEN LET key == key_of(position, m_InputRegion, m_KeySize)
            IN  IF ~is_key_valid(key, m_MapResolution)
                THEN Fail("operator[]")
                ELSE IF ~contains(m_Map, key, m_MapResolution)
                THEN /\ Len(m_Data) < MaxData
                     /\ Commit(emplace_at(m_Map, m_Data, m_MapResolution, key, DefaultItem),
                               "operator[]", TRUE, live \cup {key})
                ELSE /\ at(m_Map, m_Data, m_MapResolution, key) # {}
                     /\ last' = Call("operator[]", TRUE)
                     /\ UNCHANGED <<m_MapResolution, m_InputRegion, m_KeySize,
                                    m_Map, m_Data, ub, live>>
       ELSE Fail("operator[]")

\* rescale(resolution, input_region) with arguments that fail one of its assertions
RescaleInvalid(resolution, input_region) ==
    /\ ~(/\ resolution.width >= 1
         /\ resolution.height >= 1
         /\ input_region.width >= resolution.width
         /\ input_region.height >= resolution.height)
    /\ Fail("rescale")

\* geometries that rescale must refuse: a resolution below 1, a region
\* smaller than the resolution
InvalidGeometries ==
    { [resolution |-> [width |-> 0, height |-> 2], region |-> InitRegion],
      [resolution |-> [width |-> 2, height |-> 2],
       region |-> [x |-> 0, y |-> 0, width |-> 1, height |-> 3]],
      [resolution |-> [width |-> 2, height |-> 2],
       region |-> [x |-> 0, y |-> 0, width |-> 4, height |-> 1]] }

MapNext ==
    \/ \E key \in Keys, item \in Items : PlaceAt(key, item)
    \/ \E key \in Keys, item \in Items : PlaceAtInvalid(key, item)
    \/ \E key \in Keys, item \in Items : EmplaceAtInvalid(key, item)
    \/ \E position \in Positions, item \in Items : PlaceOutside(position, item)
    \/ \E position \in Positions, item \in Items : EmplaceOutside(position, item)
    \/ \E key \in Keys : RemoveAbsent(key)
    \/ \E key \in Keys : At(key)
    \/ \E position \in Positions : Index(position)
    \/ \E g \in Geometries \cup InvalidGeometries : RescaleInvalid(g.resolution, g.region)
    \/ \E key \in Keys, item \in Items : EmplaceAt(key, item)
    \/ \E position \in Positions, item \in Items : Place(position, item)
    \/ \E position \in Positions, item \in Items : Emplace(position, item)
    \/ \E position \in Positions, item \in Items : TryPlace(position, item)
    \/ \E position \in Positions, item \in Items : TryEmplace(position, item)
    \/ \E key \in Keys : Remove(key)
    \/ \E key \in Keys : TryRemove(key)
    \/ \E g \in Geometries : Rescale(g.resolution, g.region)
    \/ Clear

----------------------------------------------------------------------------
(* within_bounds and key_of over a family of geometries *)

\* the largest resolution (per dimension) and the largest region extent probed
KeyMaxResolution == 4
KeyMaxExtent == 7

\* the maps SpatialMap(resolution, input_region) can be constructed as:
\* every width, a few heights and origins on both sides of zero
KeyGeometries ==
    { [resolution |-> [width |-> rw, height |-> rh],
       region |-> [x |-> ox, y |-> oy, width |-> w, height |-> 3]] :
          rw \in 1 .. KeyMaxResolution, rh \in {1, 2},
          ox \in {-2, 0, 1}, oy \in {0, 1},
          w \in 1 .. KeyMaxExtent }

KeyPositions == { [x |-> x, y |-> y] : x \in -6 .. (2 * KeyMaxExtent + 3), y \in {-1, 1, 2, 5, 8} }

NoKey == Key(0, 0)

NoProbe == [position |-> [x |-> 0, y |-> 0], key |-> NoKey]

NoQuality == [num |-> 0, den |-> 1]

KeyIdle ==
    /\ probe = NoProbe
    /\ quality = NoQuality

KeyInit ==
    /\ \E g \in KeyGeometries :
          /\ g.region.width >= g.resolution.width
          /\ g.region.height >= g.resolution.height
          /\ m_MapResolution = g.resolution
          /\ m_InputRegion = g.region
          /\ m_KeySize = key_size_of(g.resolution, g.region)
          /\ m_Map = empty_map(g.resolution)
    /\ m_Data = <<>>
    /\ ub = FALSE
    /\ last = Call("SpatialMap", TRUE)
    /\ live = {}

WithinBounds(position) ==
    /\ last' = Call("within_bounds", within_bounds(position, m_InputRegion))
    /\ probe' = [position |-> position, key |-> NoKey]
    /\ UNCHANGED <<m_MapResolution, m_InputRegion, m_KeySize, m_Map, m_Data, ub, live, quality>>

KeyOf(position) ==
    /\ within_bounds(position, m_InputRegion)
    /\ last' = Call("key_of", TRUE)
    /\ probe' = [position |-> position,
                 key |-> key_of(position, m_InputRegion, m_KeySize)]
    /\ UNCHANGED <<m_MapResolution, m_InputRegion, m_KeySize, m_Map, m_Data, ub, live, quality>>

KeyNext ==
    \/ \E position \in KeyPositions : WithinBounds(position)
    \/ \E position \in KeyPositions : KeyOf(position)

----------------------------------------------------------------------------
(* distribution_quality *)

\* the 4 x 4 sector grid
sectors == 4

\* the loop over m_Data with ">=" for ">" (an entry that only reaches the
\* ideal count is taken for an excess one)
RECURSIVE count_excess_from_ideal(_, _, _, _, _)
count_excess_from_ideal(data, i, sector_size, ideal_distribution, sector_buckets) ==
    IF i > Len(data) THEN 0
    ELSE LET sector == simplify_key(data[i].key.x, data[i].key.y, 1, sector_size)
             index  == resolve_spatial_key(sector, [width |-> sectors, height |-> sectors])
             filled == [sector_buckets EXCEPT ![index] = @ + 1]
         IN  (IF filled[index] >= ideal_distribution THEN 1 ELSE 0)
             + count_excess_from_ideal(data, i + 1, sector_size, ideal_distribution, filled)

\* the loop over m_Data: each entry is counted into the bucket of its
\* sector, and is an excess one when its bucket then exceeds the ideal count
RECURSIVE count_excess(_, _, _, _, _)
count_excess(data, i, sector_size, ideal_distribution, sector_buckets) ==
    IF i > Len(data) THEN 0
    ELSE LET sector == simplify_key(data[i].key.x, data[i].key.y, 1, sector_size)
             index  == resolve_spatial_key(sector, [width |-> sectors, height |-> sectors])
             filled == [sector_buckets EXCEPT ![index] = @ + 1]
         IN  (IF filled[index] > ideal_distribution THEN 1 ELSE 0)
             + count_excess(data, i + 1, sector_size, ideal_distribution, filled)

\* distribution_quality() that divides the excess by size(), not by
\* size() less the ideal count
distribution_quality_over_size(map, data, resolution) ==
    IF is_empty(data) THEN [num |-> 1, den |-> 1]
    ELSE IF resolution.width <= sectors \/ resolution.height <= sectors
    THEN [num |-> size(data), den |-> capacity(map)]
    ELSE LET sector_size == [width  |-> float_div(resolution.width, sectors),
                             height |-> float_div(resolution.height, sectors)]
             ideal_distribution == size(data) \div (sectors * sectors)
             excess == count_excess(data, 1, sector_size, ideal_distribution,
                                    [b \in 0 .. (sectors * sectors - 1) |-> 0])
         IN  [num |-> size(data) - excess, den |-> size(data)]

\* distribution_quality(): the double returned, as the fraction num / den.
\* 1.0 is 1/1; the load of a map of at most 4 cells in a dimension is
\* size / capacity; else 1.0 - excess / (size - ideal) with the exact
\* quotient (the rounding of the division and of the subtraction is
\* monotonic and keeps 0.0 and 1.0).
distribution_quality(map, data, resolution) ==
    IF is_empty(data) THEN [num |-> 1, den |-> 1]
    ELSE IF resolution.width <= sectors \/ resolution.height <= sectors
    THEN [num |-> size(data), den |-> capacity(map)]
    ELSE LET sector_size == [width  |-> float_div(resolution.width, sectors),
                             height |-> float_div(resolution.height, sectors)]
             ideal_distribution == size(data) \div (sectors * sectors)
             excess == count_excess(data, 1, sector_size, ideal_distribution,
                                    [b \in 0 .. (sectors * sectors - 1) |-> 0])
         IN  [num |-> (size(data) - ideal_distribution) - excess,
              den |-> size(data) - ideal_distribution]

\* the resolutions of the maps whose quality is taken
QualityResolutions ==
    { [width |-> 5, height |-> 5], [width |-> 6, height |-> 5], [width |-> 2, height |-> 2] }

\* the entries placed after the run of cells: at most this many, on any keys
QualityMaxExtra == 1

\* the cells the run of placed cells starts at
QualityStarts == {0, 7, 13}

cell_key(c, resolution) == Key(c % resolution.width, c \div resolution.width)

\* the n cells in row-major order from cell start on, wrapping round
cell_run(start, n, resolution) ==
    [i \in 1 .. n |->
        Entry(cell_key((start + i - 1) % (resolution.width * resolution.height), resolution), 1)]

\* place_at on the n cells of the run from cell start on, in order, on the
\* empty map: every cell is empty when it is placed, so the entry is appended
\* and the cell linked to its index
place_run(start, n, resolution) ==
    LET cells == resolution.width * resolution.height
        first == start % cells
    IN  [map  |-> [c \in 0 .. (cells - 1) |->
                      IF (c + cells - first) % cells < n
                      THEN (c + cells - first) % cells
                      ELSE m_EmptySymbol],
         data |-> cell_run(start, n, resolution)]

\* the maps reached from SpatialMap(resolution) by place_at on a run of cells
\* and then on up to QualityMaxExtra keys more (occupied ones among them)
QualityInit ==
    /\ \E resolution \in QualityResolutions :
       \E start \in QualityStarts :
       \E n \in 0 .. (resolution.width * resolution.height) :
       \E run \in { place_run(start, n, resolution) } :
       \E k \in 0 .. QualityMaxExtra :
       \E extra \in [1 .. k -> { Key(x, y) : x \in 0 .. (resolution.width - 1),
                                              y \in 0 .. (resolution.height - 1) }] :
       \E r \in { reinsert(run.map, run.data, resolution,
                            [i \in 1 .. k |-> Entry(extra[i], 2)], 1) } :
          /\ m_MapResolution = resolution
          /\ m_InputRegion = [x |-> 0, y |-> 0,
                              width |-> resolution.width, height |-> resolution.height]
          /\ m_KeySize = key_size_of(resolution, m_InputRegion)
          /\ m_Map = r.map
          /\ m_Data = r.data
          /\ live = { run.data[i].key : i \in 1 .. n } \cup { extra[i] : i \in 1 .. k }
    /\ ub = FALSE
    /\ last = Call("place_at", TRUE)

DistributionQuality ==
    /\ quality' = distribution_quality(m_Map, m_Data, m_MapResolution)
    /\ last' = Call("distribution_quality", TRUE)
    /\ UNCHANGED <<m_MapResolution, m_InputRegion, m_KeySize, m_Map, m_Data, ub, live, probe>>

QualityNext == DistributionQuality

----------------------------------------------------------------------------
(* VSFilter: the frame queue and the trajectory *)

SMOOTHING_RADIUS_MIN == 2

\* the radii configure() is called with (round_even of the property)
Radii == {2, 4}

\* the host hands in at most this many frames
MaxFrames == 8

\* FrameTracker::track: the frame-to-frame motion, a translation along one axis
Velocities == {0, 1}

\* Transform::Identity()
Identity == 0

CROP_PERCENTAGE_MIN == 1

CROP_PERCENTAGE_MAX == 25

\* the crop percentages configure() is called with
CropPercentages == {CROP_PERCENTAGE_MIN, CROP_PERCENTAGE_MAX}

\* frame.size() of the frames the host hands in
FrameSize == [width |-> 40, height |-> 30]

FrameVector(displacement, velocity) ==
    [displacement |-> displacement, velocity |-> velocity]

FrameBuffer(frame, output) == [frame |-> frame, output |-> output]

\* SlidingBuffer: a window of at most capacity elements, oldest first
SlidingBuffer(window) == [capacity |-> window, items |-> <<>>]

window_size(buffer) == buffer.capacity

elements(buffer) == Len(buffer.items)

full(buffer) == Len(buffer.items) = buffer.capacity

\* advance: push, evicting the oldest element of a full window; a window of
\* capacity 0 holds nothing
advance(buffer, e) ==
    [buffer EXCEPT !.items = IF buffer.capacity = 0
                             THEN <<>>
                             ELSE IF Len(@) >= buffer.capacity
                                  THEN SubSeq(@, 2, Len(@)) \o <<e>>
                                  ELSE Append(@, e)]

\* resize: the window takes the new capacity and keeps its newest elements
resize(buffer, window) ==
    [capacity |-> window,
     items |-> IF Len(buffer.items) > window
               THEN SubSeq(buffer.items, Len(buffer.items) - window + 1, Len(buffer.items))
               ELSE buffer.items]

clear(buffer) == [buffer EXCEPT !.items = <<>>]

oldest(buffer) == buffer.items[1]

newest(buffer) == buffer.items[Len(buffer.items)]

previous(buffer) == buffer.items[Len(buffer.items) - 1]

\* centre: the middle element of the window
centre(buffer) == buffer.items[(Len(buffer.items) - 1) \div 2 + 1]

\* FrameVector::operator+
frame_vector_add(a, b) ==
    FrameVector(a.displacement + b.displacement, a.velocity + b.velocity)

\* the one-element lag of reset_buffers (an off-by-one of it follows)
seed_trajectory_one_more(trajectory, radius) ==
    LET seeded == advance(clear(trajectory), FrameVector(Identity, Identity))
        hold[n \in 0 .. radius] ==
            IF n = 0 THEN seeded
            ELSE IF elements(hold[n - 1]) < radius
                 THEN advance(hold[n - 1],
                              frame_vector_add(newest(hold[n - 1]), FrameVector(Identity, Identity)))
                 ELSE hold[n - 1]
    IN  hold[radius]

\* the same with a lag of two elements (the loop stops at radius - 2)
seed_trajectory_one_less(trajectory, radius) ==
    LET seeded == advance(clear(trajectory), FrameVector(Identity, Identity))
        hold[n \in 0 .. radius] ==
            IF n = 0 THEN seeded
            ELSE IF elements(hold[n - 1]) < radius - 2
                 THEN advance(hold[n - 1],
                              frame_vector_add(newest(hold[n - 1]), FrameVector(Identity, Identity)))
                 ELSE hold[n - 1]
    IN  hold[radius]

\* reset_buffers, the trajectory: cleared, seeded with the identity and
\* advanced holding the newest value while elements() < m_SmoothingRadius - 1
seed_trajectory(trajectory, radius) ==
    LET seeded == advance(clear(trajectory), FrameVector(Identity, Identity))
        hold[n \in 0 .. radius] ==
            IF n = 0 THEN seeded
            ELSE IF elements(hold[n - 1]) < radius - 1
                 THEN advance(hold[n - 1],
                              frame_vector_add(newest(hold[n - 1]), FrameVector(Identity, Identity)))
                 ELSE hold[n - 1]
    IN  hold[radius]

stabilisation_ready == full(m_Trajectory) /\ full(m_FrameQueue)

\* reset_buffers(): the frames handed to obs_source_release_frame, the
\* output of every element of the frame queue
released_frames(queue) == { queue.items[i].output : i \in 1 .. elements(queue) }

\* reset_buffers() that clears both buffers and seeds nothing
reset_buffers_unseeded(queue, trajectory, radius) ==
    [queue |-> clear(queue), trajectory |-> clear(trajectory)]

\* reset_buffers() without m_FrameQueue.clear()
reset_buffers_keep_queue(queue, trajectory, radius) ==
    [queue |-> queue, trajectory |-> seed_trajectory(trajectory, radius)]

\* reset_buffers() on the buffers as given: the queued frames are released,
\* both buffers are cleared and the trajectory is seeded
reset_buffers(queue, trajectory, radius) ==
    [queue |-> clear(queue), trajectory |-> seed_trajectory(trajectory, radius)]

\* the history of a trajectory: its elements' places, none recorded by a call
seeded_tags(trajectory) ==
    [capacity |-> trajectory.capacity,
     items |-> [i \in 1 .. Len(trajectory.items) |-> [frame |-> 0, velocity |-> Identity]]]

\* the filter as constructed: radius 0, the buffers not yet sized
VSInit ==
    /\ m_SmoothingRadius = 0
    /\ m_FrameQueue = SlidingBuffer(0)
    /\ m_Trajectory = SlidingBuffer(0)
    /\ m_CropProportion = float_zero
    /\ m_TestMode = FALSE
    /\ m_CropRegion = [x |-> 0, y |-> 0, width |-> 0, height |-> 0]
    /\ m_OutputSize = [width |-> 0, height |-> 0]
    /\ vs_calls = 0
    /\ vs_next = 1
    /\ vs_out = 0
    /\ vs_tags = SlidingBuffer(0)
    /\ vs_path = Identity
    /\ vs_kept = FALSE
    /\ vs_returned = {}
    /\ vs_released = {}

VSIdle == VSInit

\* queue_size in prepare_buffers, one more than this (a wrong delay) before it
frame_queue_size_one_more(smoothing_radius) == smoothing_radius + 3

frame_queue_size(smoothing_radius) == smoothing_radius + 2

\* window_size in prepare_buffers, a window of 2R + 3 before it
trajectory_window_size_wider(smoothing_radius) == 2 * smoothing_radius + 3

trajectory_window_size(smoothing_radius) == 2 * smoothing_radius + 1

\* prepare_buffers(smoothing_radius), with its closing reset_buffers()
prepare_buffers(smoothing_radius) ==
    LET queue_size  == frame_queue_size(smoothing_radius)
        window_size_ == trajectory_window_size(smoothing_radius)
    IN  /\ m_SmoothingRadius' = smoothing_radius
        /\ vs_calls' = 0
        /\ vs_path' = Identity
        /\ vs_kept' = FALSE
        /\ vs_released' = vs_released \cup released_frames(resize(m_FrameQueue, queue_size))
        /\ \E r \in { reset_buffers(resize(m_FrameQueue, queue_size),
                                     resize(m_Trajectory, window_size_),
                                     smoothing_radius) } :
              /\ m_FrameQueue' = r.queue
              /\ m_Trajectory' = r.trajectory
              /\ vs_tags' = seeded_tags(r.trajectory)

\* configure() that prepares the buffers on every call
radius_changed_always(smoothing_radius, new_radius) == TRUE

\* configure(): the test that guards prepare_buffers
radius_changed(smoothing_radius, new_radius) == smoothing_radius # new_radius

\* configure(settings): the buffers are prepared when the radius changes;
\* the crop proportion and the test mode are taken from the settings
Configure(new_radius, crop_percentage, test_mode) ==
    /\ new_radius >= SMOOTHING_RADIUS_MIN /\ new_radius % 2 = 0
    /\ UNCHANGED <<m_CropRegion, m_OutputSize, vs_next, vs_out, vs_returned>>
    /\ m_TestMode' = test_mode
    /\ m_CropProportion' = float_div_fraction(crop_percentage, 100)
    /\ IF radius_changed(m_SmoothingRadius, new_radius)
       THEN prepare_buffers(new_radius)
       ELSE /\ vs_kept' = (vs_kept \/ stabilisation_ready)
            /\ UNCHANGED <<m_SmoothingRadius, m_FrameQueue, m_Trajectory, vs_calls, vs_tags,
                           vs_path, vs_released>>

\* tick(), the crop region of a frame of frame_size under the crop proportion
crop_region(frame_size, crop_proportion) ==
    LET total_horz_crop == float_mul_trunc(frame_size.width, crop_proportion)
        total_vert_crop == float_mul_trunc(frame_size.height, crop_proportion)
    IN  [x |-> total_horz_crop \div 2,
         y |-> total_vert_crop \div 2,
         width |-> frame_size.width - total_horz_crop,
         height |-> frame_size.height - total_vert_crop]

\* tick(): once the buffers are full, the crop region and the output size
\* are taken from the oldest queued frame and the crop proportion
Tick ==
    /\ m_SmoothingRadius >= SMOOTHING_RADIUS_MIN
    /\ IF stabilisation_ready
       THEN LET frame_size == FrameSize
                crop == crop_region(frame_size, m_CropProportion)
            IN  /\ m_CropRegion' = crop
                /\ m_OutputSize' = IF m_TestMode THEN frame_size
                                   ELSE [width |-> crop.width, height |-> crop.height]
       ELSE UNCHANGED <<m_CropRegion, m_OutputSize>>
    /\ UNCHANGED <<m_SmoothingRadius, m_FrameQueue, m_Trajectory, m_CropProportion,
                   m_TestMode, vs_calls, vs_next, vs_out, vs_tags, vs_path, vs_kept,
                   vs_returned, vs_released>>

\* process(): the motion that forgets the path, displacement = velocity
track_motion_without_path(trajectory, velocity) ==
    advance(trajectory, FrameVector(velocity, velocity))

\* process(): the trajectory advances by the tracked motion, whose
\* displacement is the previous element's displacement plus the velocity
track_motion(trajectory, velocity) ==
    LET moved  == advance(trajectory, FrameVector(Identity, velocity))
        motion == FrameVector(previous(moved).displacement + velocity, velocity)
    IN  [moved EXCEPT !.items[Len(moved.items)] = motion]

\* process() that hands out the second queued frame in place of an even one
returned_frame_uneven(queue) ==
    IF oldest(queue).output % 2 = 0 THEN queue.items[2].output ELSE oldest(queue).output

\* process(): the frame returned once the stabilisation is ready, the output
\* of the oldest element of the frame queue
returned_frame(queue) == oldest(queue).output

\* process(obs_frame) on a configured filter
Process(velocity) ==
    /\ m_SmoothingRadius >= SMOOTHING_RADIUS_MIN
    /\ vs_next <= MaxFrames
    /\ LET queue  == advance(m_FrameQueue, FrameBuffer(vs_next, vs_next))
           trajectory == track_motion(m_Trajectory, velocity)
       IN  /\ m_FrameQueue' = queue
           /\ m_Trajectory' = trajectory
           /\ vs_out' = IF full(trajectory) /\ full(queue)
                        THEN returned_frame(queue)
                        ELSE 0
           /\ vs_returned' = IF full(trajectory) /\ full(queue)
                             THEN vs_returned \cup {returned_frame(queue)}
                             ELSE vs_returned
    /\ vs_calls' = vs_calls + 1
    /\ vs_next' = vs_next + 1
    /\ vs_tags' = advance(vs_tags, [frame |-> vs_next, velocity |-> velocity])
    /\ vs_path' = vs_path + velocity
    /\ UNCHANGED <<vs_kept, vs_released>>
    /\ UNCHANGED <<m_SmoothingRadius, m_CropProportion, m_TestMode, m_CropRegion, m_OutputSize>>

\* reset() on a configured filter
Reset ==
    /\ m_SmoothingRadius >= SMOOTHING_RADIUS_MIN
    /\ UNCHANGED <<m_SmoothingRadius, m_CropProportion, m_TestMode, m_CropRegion,
                   m_OutputSize, vs_next, vs_out, vs_returned>>
    /\ vs_calls' = 0
    /\ vs_path' = Identity
    /\ vs_kept' = FALSE
    /\ vs_released' = vs_released \cup released_frames(m_FrameQueue)
    /\ \E r \in { reset_buffers(m_FrameQueue, m_Trajectory, m_SmoothingRadius) } :
          /\ m_FrameQueue' = r.queue
          /\ m_Trajectory' = r.trajectory
          /\ vs_tags' = seeded_tags(r.trajectory)

VSNext ==
    \/ \E new_radius \in Radii, crop_percentage \in CropPercentages, test_mode \in BOOLEAN :
          Configure(new_radius, crop_percentage, test_mode)
    \/ \E velocity \in Velocities : Process(velocity)
    \/ Reset
    \/ Tick

----------------------------------------------------------------------------
(* VSFilter::enclose_crop *)

max_iterations == 100

\* max_t = 1.0
max_t == Double(2^19, 0, 0)

\* step = max_t / max_iterations
step == double_div(max_t, max_iterations)

\* Transforms are translations: [x, y], in pixels where handed in and in
\* 1/100 pixel once interpolated. Transform::Identity() is the zero one.
identity == [x |-> 0, y |-> 0]

\* lerp(from, to, t) at t = hundredths / 100 for from, to in pixels: the
\* result in 1/100 pixel. (The double t of the loop lies within 10^-15
\* above its nominal hundredth; on translations and regions of whole
\* pixels the enclosure test decides the same for both.)
lerp(from, to, hundredths) ==
    [x |-> from.x * (100 - hundredths) + to.x * hundredths,
     y |-> from.y * (100 - hundredths) + to.y * hundredths]

\* BoundingBox(frame.size(), transform): the warped frame, in 1/100 pixel
BoundingBox(frame_size, transform) ==
    [x |-> transform.x, y |-> transform.y,
     width |-> 100 * frame_size.width, height |-> 100 * frame_size.height]

\* BoundingBox::encloses(rect), rect in pixels
encloses(bounds, rect) ==
    /\ bounds.x <= 100 * rect.x
    /\ 100 * (rect.x + rect.width) <= bounds.x + bounds.width
    /\ bounds.y <= 100 * rect.y
    /\ 100 * (rect.y + rect.height) <= bounds.y + bounds.height

\* the translations enclose_crop is called with
Transforms == { [x |-> x, y |-> y] : x \in {-700, -3, 0, 7, 500}, y \in {-400, 0, 2} }

\* the crop regions tick() sets
CropRegions ==
    { crop_region(FrameSize, float_div_fraction(p, 100)) : p \in CropPercentages }

CropIdle ==
    /\ ec_transform = identity
    /\ ec_reduced_transform = identity
    /\ ec_frame_bounds = BoundingBox(FrameSize, identity)
    /\ ec_t = step
    /\ ec_iterations = 0
    /\ ec_pc = "idle"

\* enclose_crop(frame, transform) entered, up to the first loop test
EncloseCropInit ==
    /\ \E transform \in Transforms :
          /\ ec_transform = transform
          /\ ec_reduced_transform = lerp(transform, identity, 0)
          /\ ec_frame_bounds = BoundingBox(FrameSize, lerp(transform, identity, 0))
    /\ ec_t = step
    /\ ec_iterations = 0
    /\ ec_pc = "loop"

\* while(t <= max_t && !frame_bounds.encloses(m_CropRegion))
loop_test(t_now, frame_bounds) ==
    double_le(t_now, max_t) /\ ~encloses(frame_bounds, m_CropRegion)

\* one iteration of the loop
EncloseCropStep ==
    /\ ec_pc = "loop"
    /\ loop_test(ec_t, ec_frame_bounds)
    /\ LET reduced_transform == lerp(ec_transform, identity, ec_iterations + 1)
       IN  /\ ec_reduced_transform' = reduced_transform
           /\ ec_frame_bounds' = BoundingBox(FrameSize, reduced_transform)
    /\ ec_t' = double_add(ec_t, step)
    /\ ec_iterations' = ec_iterations + 1
    /\ UNCHANGED <<ec_transform, ec_pc>>

\* the loop left: return reduced_transform
EncloseCropReturn ==
    /\ ec_pc = "loop"
    /\ ~loop_test(ec_t, ec_frame_bounds)
    /\ ec_pc' = "done"
    /\ UNCHANGED <<ec_transform, ec_reduced_transform, ec_frame_bounds, ec_t, ec_iterations>>

EncloseCropNext ==
    \/ EncloseCropStep
    \/ EncloseCropReturn

\* the filter when enclose_crop is called: ready, the crop region set by tick()
CropCallInit ==
    /\ m_SmoothingRadius = 0
    /\ m_FrameQueue = SlidingBuffer(0)
    /\ m_Trajectory = SlidingBuffer(0)
    /\ m_CropProportion = float_zero
    /\ m_TestMode = FALSE
    /\ m_CropRegion \in CropRegions
    /\ m_OutputSize = [width |-> m_CropRegion.width, height |-> m_CropRegion.height]
    /\ vs_calls = 0
    /\ vs_next = 1
    /\ vs_out = 0
    /\ vs_tags = SlidingBuffer(0)
    /\ vs_path = Identity
    /\ vs_kept = FALSE
    /\ vs_returned = {}
    /\ vs_released = {}

----------------------------------------------------------------------------
(* FrameTracker *)

\* FrameTrackerSettings::min_motion_samples
min_motion_samples == 100

\* FrameTrackerSettings::min_motion_quality = 0.3f, as tenths
min_motion_quality_tenths == 3

\* track() is called on at most this many frames
MaxTracked == 12

\* what the matching and the robust estimate of a track() call yield: the
\* inlier count and the number of matched points
Estimates ==
    { [inliers |-> 0, matched |-> 1], [inliers |-> 99, matched |-> 120],
      [inliers |-> 100, matched |-> 120], [inliers |-> 100, matched |-> 400],
      [inliers |-> 150, matched |-> 200] }

\* std::nullopt
NoWarp == [from |-> 0, to |-> 0]

\* the WarpField of the motion from the previous frame to the next one
WarpField(previous_frame, next_frame) == [from |-> previous_frame, to |-> next_frame]

\* FrameTracker(settings)
TrackerInit ==
    /\ m_FrameInitialized = FALSE
    /\ m_PreviousFrame = 0
    /\ m_TrackingQuality = [inliers |-> 0, matched |-> 1]
    /\ ft_next = 1
    /\ ft_result = NoWarp
    /\ ft_fresh = TRUE

TrackerIdle == TrackerInit

\* the estimate carries enough motion evidence
enough_evidence(estimate) ==
    /\ estimate.inliers >= min_motion_samples
    /\ 10 * estimate.inliers >= min_motion_quality_tenths * estimate.matched

\* m_FrameInitialized after restart(), were the flag left as it is
restart_keeps_frame(initialized) == initialized

\* m_FrameInitialized after restart()
restart(initialized) == FALSE

\* track(next_frame): the first frame is only stored; afterwards the motion
\* from the previous frame is estimated and returned if the evidence suffices
Track(estimate) ==
    /\ ft_next <= MaxTracked
    /\ IF ~m_FrameInitialized
       THEN /\ m_FrameInitialized' = TRUE
            /\ ft_result' = NoWarp
            /\ UNCHANGED m_TrackingQuality
       ELSE /\ m_TrackingQuality' = estimate
            /\ ft_result' = IF enough_evidence(estimate)
                            THEN WarpField(m_PreviousFrame, ft_next)
                            ELSE NoWarp
            /\ UNCHANGED m_FrameInitialized
    /\ m_PreviousFrame' = ft_next
    /\ ft_next' = ft_next + 1
    /\ ft_fresh' = FALSE

\* restart(): back to uninitialized
Restart ==
    /\ m_FrameInitialized' = restart(m_FrameInitialized)
    /\ ft_fresh' = TRUE
    /\ UNCHANGED <<m_PreviousFrame, m_TrackingQuality, ft_next, ft_result>>

TrackerNext ==
    \/ \E estimate \in Estimates : Track(estimate)
    \/ Restart

----------------------------------------------------------------------------
(* CompositeFilter *)

\* the filters a chain is made of
Filters == {1, 2}

\* a chain has at most this many filters
MaxChain == 2

\* the chains configure() is called with
Chains == UNION { [1 .. n -> Filters] : n \in 0 .. MaxChain }

\* a frame: the host frame it stems from and the filters applied to it
Frame(source, applied) == [source |-> source, applied |-> applied]

\* the frames handed to process()
Inputs == { Frame(1, <<>>), Frame(2, <<>>) }

\* a default-constructed Frame
EmptyFrame == Frame(0, <<>>)

\* filter->process(input, output, debug): what the filter leaves in output
filter_process(filter, input) == Frame(input.source, Append(input.applied, filter))

\* std::vector::resize(count, value)
vector_resize(vector, count, value) ==
    [i \in 1 .. count |-> IF i <= Len(vector) THEN vector[i] ELSE value]

\* enable_all_filters() that leaves the flags as they are
enable_all_filters_none(run_state) == run_state

\* enable_all_filters()
enable_all_filters(run_state) == [i \in 1 .. Len(run_state) |-> TRUE]

\* the loop of process() that runs the disabled filters as well
RECURSIVE run_chain_all(_, _, _, _, _, _)
run_chain_all(chain, run_state, outputs, i, prev_filter_output, invoked) ==
    IF i > Len(chain)
    THEN [outputs |-> outputs, prev_filter_output |-> prev_filter_output, invoked |-> invoked]
    ELSE LET filter_output == filter_process(chain[i], prev_filter_output)
         IN  run_chain_all(chain, run_state, [outputs EXCEPT ![i] = filter_output], i + 1,
                           filter_output,
                           Append(invoked, [index |-> i, input |-> prev_filter_output]))

\* the loop of process() from filter i on: an enabled filter reads
\* *prev_filter_output and writes m_FilterOutputs[i], which becomes the
\* previous output; a disabled one is passed over
RECURSIVE run_chain(_, _, _, _, _, _)
run_chain(chain, run_state, outputs, i, prev_filter_output, invoked) ==
    IF i > Len(chain)
    THEN [outputs |-> outputs, prev_filter_output |-> prev_filter_output, invoked |-> invoked]
    ELSE IF run_state[i]
    THEN LET filter_output == filter_process(chain[i], prev_filter_output)
         IN  run_chain(chain, run_state, [outputs EXCEPT ![i] = filter_output], i + 1,
                       filter_output,
                       Append(invoked, [index |-> i, input |-> prev_filter_output]))
    ELSE run_chain(chain, run_state, outputs, i + 1, prev_filter_output, invoked)

CFCall(op, arg) == [op |-> op, arg |-> arg]

\* a call other than process(): there is no input, output or invocation of it
NoProcess ==
    /\ cf_input' = EmptyFrame
    /\ cf_output' = EmptyFrame
    /\ cf_invoked' = <<>>

\* CompositeFilter(settings): configure(settings) on the empty vectors
CompositeInit ==
    /\ filter_chain \in Chains
    /\ m_FilterRunState = [i \in 1 .. Len(filter_chain) |-> TRUE]
    /\ m_FilterOutputs = [i \in 1 .. Len(filter_chain) |-> EmptyFrame]
    /\ cf_input = EmptyFrame
    /\ cf_output = EmptyFrame
    /\ cf_invoked = <<>>
    /\ cf_last = CFCall("CompositeFilter", 0)

\* the filter constructed with an empty chain
CompositeIdle ==
    /\ filter_chain = <<>>
    /\ CompositeInit

\* process(input, output, debug); with an empty chain VideoFilter::process
\* writes the output first, and output.copy() overwrites it in every case
CFProcess(input) ==
    /\ cf_input' = input
    /\ cf_last' = CFCall("process", 0)
    /\ \E r \in { run_chain(filter_chain, m_FilterRunState, m_FilterOutputs, 1, input, <<>>) } :
          /\ m_FilterOutputs' = r.outputs
          /\ cf_output' = r.prev_filter_output
          /\ cf_invoked' = r.invoked
    /\ UNCHANGED <<filter_chain, m_FilterRunState>>

\* configure(settings); arg: the number of filters that were disabled
CFConfigure(chain) ==
    /\ filter_chain' = chain
    /\ m_FilterOutputs' = vector_resize(m_FilterOutputs, Len(chain), EmptyFrame)
    /\ m_FilterRunState' = enable_all_filters(vector_resize(m_FilterRunState, Len(chain), TRUE))
    /\ cf_last' = CFCall("configure",
                         Cardinality({ i \in 1 .. Len(m_FilterRunState) : ~m_FilterRunState[i] }))
    /\ NoProcess

\* disable_filter(index), the index counted from 1
DisableFilter(index) ==
    /\ index <= Len(m_FilterRunState)
    /\ cf_last' = CFCall("disable_filter", index)
    /\ m_FilterRunState' = [m_FilterRunState EXCEPT ![index] = FALSE]
    /\ NoProcess
    /\ UNCHANGED <<filter_chain, m_FilterOutputs>>

\* enable_filter(index), the index counted from 1
EnableFilter(index) ==
    /\ index <= Len(m_FilterRunState)
    /\ cf_last' = CFCall("enable_filter", index)
    /\ m_FilterRunState' = [m_FilterRunState EXCEPT ![index] = TRUE]
    /\ NoProcess
    /\ UNCHANGED <<filter_chain, m_FilterOutputs>>

CompositeNext ==
    \/ \E input \in Inputs : CFProcess(input)
    \/ \E chain \in Chains : CFConfigure(chain)
    \/ \E index \in 1 .. MaxChain : DisableFilter(index)
    \/ \E index \in 1 .. MaxChain : EnableFilter(index)

----------------------------------------------------------------------------
(* key_of on wide input regions: binary32 on integers beyond 2^24 *)

\* static_cast<float>(n) for an int 1 <= n < 2^30: exact up to 2^24, else
\* rounded to 24 significant bits, nearest, ties to even
float_of_int(n) ==
    LET k == Log2Floor(n, 1)
    IN  IF k <= 23 THEN [m |-> n * 2^(23 - k), e |-> k - 23]
        ELSE LET shift == k - 23
                 q     == n \div 2^shift
                 r     == n % 2^shift
                 half  == 2^(shift - 1)
                 up    == r > half \/ (r = half /\ q % 2 = 1)
                 m1    == IF up THEN q + 1 ELSE q
             IN  IF m1 = 2^24 THEN [m |-> 2^23, e |-> shift + 1] ELSE [m |-> m1, e |-> shift]

\* long division: bits more quotient bits of r / d (r < d) appended to q
RECURSIVE long_div(_, _, _, _)
long_div(r, d, bits, q) ==
    IF bits = 0 THEN [q |-> q, r |-> r]
    ELSE IF 2 * r >= d THEN long_div(2 * r - d, d, bits - 1, 2 * q + 1)
         ELSE long_div(2 * r, d, bits - 1, 2 * q)

\* a / b for binary32 a, b > 0: the quotient of the mantissas to 24 bits
\* and a guard bit, rounded to nearest, ties to even
float_quot(a, b) ==
    LET s   == IF a.m >= b.m THEN 24 ELSE 25
    IN  \* the exact quotient is (Q + rem / b.m) * 2^(a.e - b.e - s)
        LET res == long_div(a.m % b.m, b.m, s, a.m \div b.m)
            m0  == res.q \div 2
            up  == (res.q % 2 = 1) /\ (res.r # 0 \/ m0 % 2 = 1)
            m1  == IF up THEN m0 + 1 ELSE m0
        IN  IF m1 = 2^24 THEN [m |-> 2^23, e |-> a.e - b.e - s + 2]
            ELSE [m |-> m1, e |-> a.e - b.e - s + 1]

\* static_cast<size_t>(f) for a binary32 0 < f < 2^30
float_to_size(f) ==
    IF f.e >= 0 THEN f.m * 2^f.e
    ELSE IF 0 - f.e >= 24 THEN 0
    ELSE f.m \div 2^(0 - f.e)

\* the region widths probed: on both sides of 2^24, where static_cast<float>
\* of an int starts to round
WideExtents == { 2^24 - 1, 2^24, 2^24 + 1, 2^25 }

\* the maps SpatialMap(resolution, input_region) is constructed as
WideGeometries ==
    { [resolution |-> [width |-> rw, height |-> rh],
       region |-> [x |-> ox, y |-> 0, width |-> w, height |-> 3]] :
          rw \in 1 .. KeyMaxResolution, rh \in {1, 2}, ox \in {-2, 0, 3}, w \in WideExtents }

\* integer positions (in whole units) of a region: its first columns, its
\* middle and its last columns, in every row
WidePositions(region) ==
    { [x |-> x, y |-> y] :
          x \in { region.x, region.x + 1, region.x + region.width \div 2,
                  region.x + region.width - 2, region.x + region.width - 1 },
          y \in region.y .. (region.y + region.height - 1) }

\* m_KeySize in rescale
key_size_wide(resolution, region) ==
    [width  |-> float_quot(float_of_int(region.width), float_of_int(resolution.width)),
     height |-> float_quot(float_of_int(region.height), float_of_int(resolution.height))]

\* within_bounds(position) for an integer position in whole units
within_bounds_int(position, region) ==
    LET br == [x |-> region.x + region.width, y |-> region.y + region.height]
    IN  /\ between(position.x, region.x, br.x - 1)
        /\ between(position.y, region.y, br.y - 1)

\* static_cast<size_t>(static_cast<float>(p) / divisor) for an int p >= 0
float_quot_trunc(p, divisor) ==
    IF p = 0 THEN 0 ELSE float_to_size(float_quot(float_of_int(p), divisor))

\* key_of(position) for an integer position that is within_bounds
key_of_int(position, region, key_size) ==
    Key(float_quot_trunc(position.x - region.x, key_size.width),
        float_quot_trunc(position.y - region.y, key_size.height))

WideInit ==
    /\ \E g \in WideGeometries :
          /\ m_MapResolution = g.resolution
          /\ m_InputRegion = g.region
          /\ m_KeySize = key_size_wide(g.resolution, g.region)
          /\ m_Map = empty_map(g.resolution)
    /\ m_Data = <<>>
    /\ ub = FALSE
    /\ last = Call("SpatialMap", TRUE)
    /\ live = {}

\* key_of(position), position an integer point in whole units
KeyOfWide(position) ==
    /\ within_bounds_int(position, m_InputRegion)
    /\ last' = Call("key_of", TRUE)
    /\ probe' = [position |-> position,
                 key |-> key_of_int(position, m_InputRegion, m_KeySize)]
    /\ UNCHANGED <<m_MapResolution, m_InputRegion, m_KeySize, m_Map, m_Data, ub, live, quality>>

WideNext == \E position \in WidePositions(m_InputRegion) : KeyOfWide(position)

----------------------------------------------------------------------------
(* VSFilter::reset_buffers, one loop iteration at a time *)

\* the loop iterations of a reset_buffers() call are counted modulo this
IterationWrap == 8

\* the window a default-constructed SlidingBuffer has
DefaultWindows == {0, 1, 5}

\* a uint32_t as two 16-bit limbs
uint32(n) == [hi |-> n \div 65536, lo |-> n % 65536]

\* a - 1 in unsigned 32-bit arithmetic: 0 - 1 wraps to 4294967295
uint32_minus_one(a) ==
    IF a.lo > 0 THEN [a EXCEPT !.lo = @ - 1]
    ELSE IF a.hi > 0 THEN [hi |-> a.hi - 1, lo |-> 65535]
    ELSE [hi |-> 65535, lo |-> 65535]

uint32_less(a, b) == a.hi < b.hi \/ (a.hi = b.hi /\ a.lo < b.lo)

\* the loop test of reset_buffers(): elements() < m_SmoothingRadius - 1
reset_loop_test(trajectory, smoothing_radius) ==
    uint32_less(uint32(elements(trajectory)), uint32_minus_one(uint32(smoothing_radius)))

\* the loop body of reset_buffers(): the newest value is held (what newest()
\* reads from an empty window is pushed into a window that holds nothing)
hold_newest(trajectory) ==
    IF elements(trajectory) = 0
    THEN advance(trajectory, FrameVector(Identity, Identity))
    ELSE advance(trajectory, frame_vector_add(newest(trajectory), FrameVector(Identity, Identity)))

ResetIdle ==
    /\ rb_pc = "idle"
    /\ rb_caller = "none"
    /\ rb_iterations = 0

\* the filter as constructed, for each window a default SlidingBuffer may have
ResetInit ==
    \E window \in DefaultWindows :
        /\ m_SmoothingRadius = 0
        /\ m_FrameQueue = SlidingBuffer(window)
        /\ m_Trajectory = SlidingBuffer(window)
        /\ m_CropProportion = float_zero
        /\ m_TestMode = FALSE
        /\ m_CropRegion = [x |-> 0, y |-> 0, width |-> 0, height |-> 0]
        /\ m_OutputSize = [width |-> 0, height |-> 0]
        /\ vs_calls = 0
        /\ vs_next = 1
        /\ vs_out = 0
        /\ vs_tags = SlidingBuffer(window)
        /\ vs_path = Identity
        /\ vs_kept = FALSE
        /\ vs_returned = {}
        /\ vs_released = {}
        /\ ResetIdle

\* reset_buffers() up to its loop, on the buffers as given: the assertion on
\* the window sizes (it stops the call in a build that checks assertions and
\* is compiled out otherwise), the release of the queued frames, the clears
\* and the seeding advance
enter_reset_buffers(caller, queue, trajectory) ==
    /\ rb_pc = "idle"
    /\ \/ /\ ~(window_size(trajectory) > window_size(queue))
          /\ rb_pc' = "assert"
          /\ rb_caller' = caller
          /\ rb_iterations' = 0
          /\ m_FrameQueue' = queue
          /\ m_Trajectory' = trajectory
          /\ UNCHANGED <<vs_calls, vs_tags, vs_path, vs_kept, vs_released>>
       \/ /\ rb_pc' = "loop"
          /\ rb_caller' = caller
          /\ rb_iterations' = 0
          /\ m_FrameQueue' = clear(queue)
          /\ m_Trajectory' = advance(clear(trajectory), FrameVector(Identity, Identity))
          /\ vs_released' = vs_released \cup released_frames(queue)
          /\ vs_calls' = 0
          /\ vs_tags' = seeded_tags(m_Trajectory')
          /\ vs_path' = Identity
          /\ vs_kept' = FALSE

\* reset() on a configured filter
ResetEnter ==
    /\ m_SmoothingRadius >= SMOOTHING_RADIUS_MIN
    /\ enter_reset_buffers("reset", m_FrameQueue, m_Trajectory)
    /\ UNCHANGED <<m_SmoothingRadius, m_CropProportion, m_TestMode, m_CropRegion,
                   m_OutputSize, vs_next, vs_out, vs_returned>>

\* ~VSFilter(), on a configured filter or on one that never was (Create
\* deletes the filter it has constructed when validate() fails)
Destroy ==
    /\ enter_reset_buffers("~VSFilter", m_FrameQueue, m_Trajectory)
    /\ UNCHANGED <<m_SmoothingRadius, m_CropProportion, m_TestMode, m_CropRegion,
                   m_OutputSize, vs_next, vs_out, vs_returned>>

\* configure(settings): with a new radius, prepare_buffers resizes the
\* buffers and enters reset_buffers(); the settings it takes afterwards are
\* read by nothing in the loop
ConfigureEnter(new_radius, crop_percentage, test_mode) ==
    /\ rb_pc = "idle"
    /\ new_radius >= SMOOTHING_RADIUS_MIN /\ new_radius % 2 = 0
    /\ IF radius_changed(m_SmoothingRadius, new_radius)
       THEN /\ m_SmoothingRadius' = new_radius
            /\ enter_reset_buffers("configure",
                                   resize(m_FrameQueue, frame_queue_size(new_radius)),
                                   resize(m_Trajectory, trajectory_window_size(new_radius)))
            /\ m_CropProportion' = float_div_fraction(crop_percentage, 100)
            /\ m_TestMode' = test_mode
            /\ UNCHANGED <<m_CropRegion, m_OutputSize, vs_next, vs_out, vs_returned>>
       ELSE /\ Configure(new_radius, crop_percentage, test_mode)
            /\ UNCHANGED resetVars

\* process(obs_frame), while no reset_buffers() is running
ProcessIdle(velocity) ==
    /\ rb_pc = "idle"
    /\ Process(velocity)
    /\ UNCHANGED resetVars

\* reset_buffers(): the loop test and, when it holds, one iteration; when it
\* fails the call returns (the filter is gone when ~VSFilter called it)
ResetLoop ==
    /\ rb_pc = "loop"
    /\ IF reset_loop_test(m_Trajectory, m_SmoothingRadius)
       THEN /\ m_Trajectory' = hold_newest(m_Trajectory)
            /\ vs_tags' = seeded_tags(m_Trajectory')
            /\ rb_iterations' = (rb_iterations + 1) % IterationWrap
            /\ UNCHANGED <<rb_pc, rb_caller>>
       ELSE /\ rb_pc' = IF rb_caller = "~VSFilter" THEN "destroyed" ELSE "idle"
            /\ rb_caller' = "none"
            /\ rb_iterations' = 0
            /\ UNCHANGED <<m_Trajectory, vs_tags>>
    /\ UNCHANGED <<m_SmoothingRadius, m_FrameQueue, m_CropProportion, m_TestMode,
                   m_CropRegion, m_OutputSize, vs_calls, vs_next, vs_out, vs_path,
                   vs_kept, vs_returned, vs_released>>

ResetNext ==
    \/ \E new_radius \in Radii, crop_percentage \in CropPercentages, test_mode \in BOOLEAN :
          ConfigureEnter(new_radius, crop_percentage, test_mode)
    \/ \E velocity \in Velocities : ProcessIdle(velocity)
    \/ ResetEnter
    \/ Destroy
    \/ ResetLoop

----------------------------------------------------------------------------
(* The specifications *)

\* SpatialMap: place, remove, rescale, clear
Init == MapInit /\ KeyIdle /\ VSIdle /\ CropIdle /\ TrackerIdle /\ CompositeIdle /\ ResetIdle

Next == MapNext /\ UNCHANGED <<keyVars, vsVars, cropVars, trackVars, compVars, resetVars>>

Spec == Init /\ [][Next]_vars

\* within_bounds and key_of on a constructed map
InitKey == KeyInit /\ KeyIdle /\ VSIdle /\ CropIdle /\ TrackerIdle /\ CompositeIdle /\ ResetIdle

NextKey == KeyNext /\ UNCHANGED <<vsVars, cropVars, trackVars, compVars, resetVars>>

SpecKey == InitKey /\ [][NextKey]_vars

\* distribution_quality on maps filled by place_at
InitQuality == QualityInit /\ KeyIdle /\ VSIdle /\ CropIdle /\ TrackerIdle /\ CompositeIdle /\ ResetIdle

NextQuality == QualityNext /\ UNCHANGED <<vsVars, cropVars, trackVars, compVars, resetVars>>

SpecQuality == InitQuality /\ [][NextQuality]_vars

\* VSFilter: configure, process, reset
InitVS == MapInit /\ KeyIdle /\ VSInit /\ CropIdle /\ TrackerIdle /\ CompositeIdle /\ ResetIdle

NextVS == VSNext /\ UNCHANGED <<mapVars, keyVars, cropVars, trackVars, compVars, resetVars>>

SpecVS == InitVS /\ [][NextVS]_vars

\* VSFilter::enclose_crop, step by step
InitCrop == MapInit /\ KeyIdle /\ CropCallInit /\ EncloseCropInit /\ TrackerIdle /\ CompositeIdle /\ ResetIdle

NextCrop == EncloseCropNext /\ UNCHANGED <<mapVars, keyVars, vsVars, trackVars, compVars, resetVars>>

SpecCrop == InitCrop /\ [][NextCrop]_vars

\* FrameTracker: track and restart
InitTracker == MapInit /\ KeyIdle /\ VSIdle /\ CropIdle /\ TrackerInit /\ CompositeIdle /\ ResetIdle

NextTracker == TrackerNext /\ UNCHANGED <<mapVars, keyVars, vsVars, cropVars, compVars, resetVars>>

SpecTracker == InitTracker /\ [][NextTracker]_vars

\* key_of on maps over wide input regions
InitWide == WideInit /\ KeyIdle /\ VSIdle /\ CropIdle /\ TrackerIdle /\ CompositeIdle /\ ResetIdle

NextWide == WideNext /\ UNCHANGED <<vsVars, cropVars, trackVars, compVars, resetVars>>

SpecWide == InitWide /\ [][NextWide]_vars

\* CompositeFilter: configure, process, enable and disable
InitComposite == MapInit /\ KeyIdle /\ VSIdle /\ CropIdle /\ TrackerIdle /\ CompositeInit /\ ResetIdle

NextComposite == CompositeNext /\ UNCHANGED <<mapVars, keyVars, vsVars, cropVars, trackVars, resetVars>>

SpecComposite == InitComposite /\ [][NextComposite]_vars

\* VSFilter with reset_buffers() run one loop iteration at a time; the thread
\* that runs the call keeps running it
InitReset == MapInit /\ KeyIdle /\ ResetInit /\ CropIdle /\ TrackerIdle /\ CompositeIdle

NextReset == ResetNext /\ UNCHANGED <<mapVars, keyVars, cropVars, trackVars, compVars>>

filterVars == <<vsVars, resetVars>>

SpecReset == InitReset /\ [][NextReset]_vars /\ WF_filterVars(ResetLoop)

----------------------------------------------------------------------------
(* SpatialMap<T>: the properties *)

\* the keys k for which contains(k) is true
Contained == { k \in ValidKeys : contains(m_Map, k, m_MapResolution) }

\* the same set in the state after the step
ContainedNext == { k \in Keys : is_key_valid(k, m_MapResolution')
                                /\ contains(m_Map', k, m_MapResolution') }

\* at(key) returns item: the read is inside the data array and yields item
at_returns(map, data, resolution, key, item) ==
    at(map, data, resolution, key) = {item}

\* the position lies in [x, x + width) x [y, y + height)
in_region(position, region) ==
    /\ 2 * region.x <= position.x /\ position.x < 2 * (region.x + region.width)
    /\ 2 * region.y <= position.y /\ position.y < 2 * (region.y + region.height)

\* C1: size() is the number of inserts minus the number of removes, that is
\* the number of keys placed and not removed afterwards (a place on an
\* occupied key replaces and inserts nothing), and contains(k) is true
\* exactly for those keys.
C1_SizeAndContains ==
    /\ size(m_Data) = Cardinality(live)
    /\ \A k \in ValidKeys : contains(m_Map, k, m_MapResolution) <=> k \in live

\* C2: every non-empty link is an index inside the data array whose entry
\* stores a key of that cell, no two cells share an index, and every entry
\* of the data array is the one its key's cell links to.
C2_LinksAndDataConsistent ==
    /\ \A c \in DOMAIN m_Map :
          ~is_data_link_empty(m_Map[c]) =>
              /\ m_Map[c] < Len(m_Data)
              /\ resolve_spatial_key(m_Data[m_Map[c] + 1].key, m_MapResolution) = c
    /\ \A c, d \in DOMAIN m_Map :
          (c # d /\ ~is_data_link_empty(m_Map[c])) => m_Map[c] # m_Map[d]
    /\ \A i \in 1 .. Len(m_Data) :
          /\ is_key_valid(m_Data[i].key, m_MapResolution)
          /\ fetch_data_link(m_Map, m_Data[i].key, m_MapResolution) = i - 1

\* C3: place_at / emplace_at on an occupied key replaces in place: the size
\* and the link of every other contained key stay, and at(j) returns what
\* it returned before for every other contained key j.
C3_ReplaceInPlace ==
    [][\A key \in Keys, item \in Items :
          ((PlaceAt(key, item) \/ EmplaceAt(key, item)) /\ key \in Contained) =>
              /\ size(m_Data') = size(m_Data)
              /\ \A j \in Contained \ {key} :
                    /\ fetch_data_link(m_Map', j, m_MapResolution)
                          = fetch_data_link(m_Map, j, m_MapResolution)
                    /\ \A v \in Items :
                          at_returns(m_Map, m_Data, m_MapResolution, j, v)
                              => at_returns(m_Map', m_Data', m_MapResolution, j, v)
      ]_vars

\* C4: remove(k) keeps every other contained key contained with the value
\* at() returned before, repoints the link of the key whose entry was last
\* to the index k's entry had, and shrinks the data array by one.
C4_RemoveKeepsOthers ==
    [][\A key \in Keys :
          (Remove(key) /\ ~ub') =>
              /\ size(m_Data') = size(m_Data) - 1
              /\ \A j \in Contained \ {key} :
                    /\ contains(m_Map', j, m_MapResolution)
                    /\ \A v \in Items :
                          at_returns(m_Map, m_Data, m_MapResolution, j, v)
                              => at_returns(m_Map', m_Data', m_MapResolution, j, v)
              /\ m_Data[Len(m_Data)].key # key =>
                    fetch_data_link(m_Map', m_Data[Len(m_Data)].key, m_MapResolution)
                        = fetch_data_link(m_Map, key, m_MapResolution)
      ]_vars

\* C5: after a rescale the keys contained before that are still valid are
\* contained with the value at() returned before, the entries of the keys
\* that became invalid are gone, and no other key is contained.
C5_RescaleKeepsValidKeys ==
    [][\A g \in Geometries :
          Rescale(g.resolution, g.region) =>
              /\ \A k \in Contained :
                    is_key_valid(k, g.resolution) =>
                        /\ k \in ContainedNext
                        /\ \A v \in Items :
                              at_returns(m_Map, m_Data, m_MapResolution, k, v)
                                  => at_returns(m_Map', m_Data', g.resolution, k, v)
              /\ \A k \in Contained :
                    ~is_key_valid(k, g.resolution) =>
                        \A i \in 1 .. Len(m_Data') : m_Data'[i].key # k
              /\ ContainedNext \subseteq Contained
      ]_vars

\* C6: after remove(k) contains(k) is false, and when k was the only key
\* contained the map is empty.
C6_RemoveThenAbsent ==
    [][\A key \in Keys :
          (Remove(key) /\ ~ub') =>
              /\ ~contains(m_Map', key, m_MapResolution)
              /\ Contained = {key} => is_empty(m_Data')
      ]_vars

\* the map itself: geometry, links and data
mapState == <<m_MapResolution, m_InputRegion, m_KeySize, m_Map, m_Data>>

\* C7: try_place / try_emplace return false and change nothing for a
\* position outside the input region and act as place / emplace for one
\* inside; try_remove returns false and changes nothing for a valid key
\* that is not contained and acts as remove for a contained one.
C7_TryVariants ==
    [][/\ \A position \in Positions, item \in Items :
             (TryPlace(position, item) \/ TryEmplace(position, item)) =>
                 IF in_region(position, m_InputRegion)
                 THEN /\ last'.ret = TRUE
                      /\ LET r == place_at(m_Map, m_Data, m_MapResolution,
                                           key_of(position, m_InputRegion, m_KeySize), item)
                         IN  m_Map' = r.map /\ m_Data' = r.data
                 ELSE /\ last'.ret = FALSE
                      /\ UNCHANGED mapState
       /\ \A key \in Keys :
             TryRemove(key) =>
                 IF key \in Contained
                 THEN /\ last'.ret = TRUE
                      /\ LET r == remove(m_Map, m_Data, m_MapResolution, key)
                         IN  m_Map' = r.map /\ m_Data' = r.data
                 ELSE /\ last'.ret = FALSE
                      /\ UNCHANGED mapState
      ]_vars

\* the grid cell of a position of the input region, in exact arithmetic:
\* cell c spans [c * width / resolution, (c + 1) * width / resolution)
exact_cell(position, region, resolution) ==
    Key(((position.x - 2 * region.x) * resolution.width) \div (2 * region.width),
        ((position.y - 2 * region.y) * resolution.height) \div (2 * region.height))

\* C8: within_bounds is true exactly for the positions of the half-open
\* input region, and two positions of one grid cell have equal keys.
C8_HalfOpenBounds ==
    /\ last.op = "within_bounds" =>
          (last.ret <=> in_region(probe.position, m_InputRegion))
    /\ last.op = "key_of" =>
          \A q \in KeyPositions :
              ( /\ in_region(probe.position, m_InputRegion)
                /\ in_region(q, m_InputRegion)
                /\ exact_cell(probe.position, m_InputRegion, m_MapResolution)
                      = exact_cell(q, m_InputRegion, m_MapResolution) )
              => key_of(q, m_InputRegion, m_KeySize) = probe.key

\* C9: distribution_quality() is exactly 1.0 for an empty map and lies in
\* [0, 1] for a non-empty map of a resolution above 4 in both dimensions.
C9_QualityInUnitInterval ==
    last.op = "distribution_quality" =>
        /\ is_empty(m_Data) => (quality.num = 1 /\ quality.den = 1)
        /\ (~is_empty(m_Data) /\ m_MapResolution.width > sectors
                              /\ m_MapResolution.height > sectors) =>
              (quality.den > 0 /\ 0 <= quality.num /\ quality.num <= quality.den)

\* a map of more than 16 entries (the ideal count is 1) with a quality
\* strictly between 0 and 1 has been measured
C9_Witness ==
    /\ last.op = "distribution_quality"
    /\ m_MapResolution.width > sectors /\ m_MapResolution.height > sectors
    /\ size(m_Data) > sectors * sectors
    /\ 0 < quality.num /\ quality.num < quality.den

\* C10: after prepare_buffers(R) the filter is not ready after each of the
\* first R + 1 process() calls and ready from the (R + 2)-th on, the frame
\* queue (capacity R + 2) and the trajectory (capacity 2R + 1) becoming
\* full in that same call.
C10_ReadyAfterFill ==
    m_SmoothingRadius >= SMOOTHING_RADIUS_MIN =>
        /\ window_size(m_FrameQueue) = m_SmoothingRadius + 2
        /\ window_size(m_Trajectory) = 2 * m_SmoothingRadius + 1
        /\ vs_calls <= m_SmoothingRadius + 1 =>
              (~full(m_FrameQueue) /\ ~full(m_Trajectory) /\ ~stabilisation_ready)
        /\ vs_calls >= m_SmoothingRadius + 2 =>
              (full(m_FrameQueue) /\ full(m_Trajectory) /\ stabilisation_ready)

\* the (R + 2)-th process() call after prepare_buffers(4) has been made
C10_Witness ==
    /\ m_SmoothingRadius = 4
    /\ vs_calls = m_SmoothingRadius + 2
    /\ stabilisation_ready
    /\ vs_out # 0

----------------------------------------------------------------------------
(* VSFilter: the buffers in step *)

\* C11: in every state reached by configure (prepare_buffers with an even
\* radius >= 2, radius changes included), reset, process and tick, the
\* trajectory is full exactly when the frame queue is full: the assertion
\* in stabilisation_ready() holds.
C11_BuffersFullTogether ==
    m_SmoothingRadius >= SMOOTHING_RADIUS_MIN =>
        (full(m_Trajectory) <=> full(m_FrameQueue))

\* both buffers full again after a radius change, a reset and a tick
C11_Witness ==
    /\ m_SmoothingRadius = 2
    /\ full(m_Trajectory) /\ full(m_FrameQueue)
    /\ vs_calls >= 4
    /\ vs_next - 1 - vs_calls >= 4
    /\ m_CropRegion.width # 0

\* C12: whenever stabilisation_ready() holds, the centre element of the
\* trajectory is the sample recorded by the process() call right after the
\* one that enqueued the oldest queued frame, with the velocity track()
\* returned in that call (the motion from the oldest frame to the next).
C12_CentreAligned ==
    (m_SmoothingRadius >= SMOOTHING_RADIUS_MIN /\ stabilisation_ready) =>
        /\ elements(vs_tags) = elements(m_Trajectory)
        /\ centre(vs_tags).frame = oldest(m_FrameQueue).frame + 1
        /\ centre(m_Trajectory).velocity = centre(vs_tags).velocity

\* ready at radius 4 after earlier frames and a reset or radius change, the
\* centre sample carrying a motion
C12_Witness ==
    /\ m_SmoothingRadius = 4
    /\ stabilisation_ready
    /\ vs_next - 1 > vs_calls
    /\ centre(m_Trajectory).velocity = 1
    /\ centre(vs_tags).frame = oldest(m_FrameQueue).frame + 1

\* C13: process() returns no frame while the buffers are not full; after
\* a reset the next R+1 process() calls return no frame and the (R+2)-th
\* returns one.
C13_NoOutputUntilRefilled ==
    [][\A velocity \in Velocities :
          Process(velocity) =>
              /\ (vs_out' = 0) <=> ~(full(m_Trajectory') /\ full(m_FrameQueue'))
              /\ vs_calls' <= m_SmoothingRadius + 1 => vs_out' = 0
              /\ vs_calls' = m_SmoothingRadius + 2 => vs_out' # 0]_vars

\* output resumed by the (R+2)-th call after a reset of full buffers
C13_Witness ==
    /\ m_SmoothingRadius = 2
    /\ vs_calls = m_SmoothingRadius + 2
    /\ vs_next - 1 - vs_calls >= m_SmoothingRadius + 2
    /\ vs_out # 0

\* the number of calls between the input of a frame and the process()
\* call that returned it: 0 when the frame is returned by its own call
latency_of(frame_in, frame_out) == frame_in - frame_out

\* C14 (amended): once output has started, every process() call returns
\* the frame that was input R+1 calls earlier, one less than the frame
\* queue's size R+2: the same latency for every frame, and half the window
\* size 2R+1 rounded up.
C14_ConstantLatency ==
    [][\A velocity \in Velocities :
          (Process(velocity) /\ vs_out' # 0) =>
              latency_of(vs_next, vs_out') = m_SmoothingRadius + 1]_vars

\* C14 as stated: the latency is half the window size 2R+1, either the
\* exact half or the integer half R.
C14_LatencyHalfWindow ==
    [][\A velocity \in Velocities :
          (Process(velocity) /\ vs_out' # 0) =>
              \/ 2 * latency_of(vs_next, vs_out') = trajectory_window_size(m_SmoothingRadius)
              \/ latency_of(vs_next, vs_out') = trajectory_window_size(m_SmoothingRadius) \div 2]_vars

\* the third frame in a row returned at radius 4
C14_Witness ==
    /\ m_SmoothingRadius = 4
    /\ vs_calls = m_SmoothingRadius + 4
    /\ vs_out = vs_next - 1 - (m_SmoothingRadius + 1)

----------------------------------------------------------------------------
(* VSFilter::enclose_crop: the properties *)

\* the frame warped by the transform reduced by hundredths / 100 encloses
\* the crop region
encloses_at(hundredths) ==
    encloses(BoundingBox(FrameSize, lerp(ec_transform, identity, hundredths)), m_CropRegion)

\* C15: for every transform and every crop region inside the unwarped
\* frame, the transform enclose_crop returns warps the frame to a bounding
\* box that encloses the crop region.
C15_ReturnedTransformEncloses ==
    ec_pc = "done" =>
        encloses(BoundingBox(FrameSize, ec_reduced_transform), m_CropRegion)

\* C16: enclose_crop returns after at most 100 reduction steps, and when no
\* smaller fraction of the transform encloses the crop region it returns
\* the identity, the interpolation at fraction 1.
C16_EndsAtIdentity ==
    ec_pc = "done" =>
        /\ ec_iterations <= max_iterations
        /\ (\A k \in 0 .. (max_iterations - 1) : ~encloses_at(k)) =>
               ec_reduced_transform = lerp(ec_transform, identity, max_iterations)

\* C17: enclose_crop returns the transform unreduced exactly when it
\* already encloses the crop region; otherwise it returns
\* lerp(transform, identity, k/100) for the smallest k in 1..100 at which
\* the warped frame encloses the crop region.
C17_LargestSafeFraction ==
    ec_pc = "done" =>
        /\ (ec_reduced_transform = lerp(ec_transform, identity, 0)) <=> encloses_at(0)
        /\ ~encloses_at(0) =>
               \E k \in 1 .. max_iterations :
                  /\ encloses_at(k)
                  /\ \A j \in 1 .. (k - 1) : ~encloses_at(j)
                  /\ ec_reduced_transform = lerp(ec_transform, identity, k)

----------------------------------------------------------------------------
(* FrameTracker: the properties *)

\* C18: the first track() after construction and after every restart()
\* returns no result and only stores the frame as previous; a WarpField is
\* returned only by a track() made in the tracking state, and it is the
\* motion from the stored previous frame.
C18_TwoStateTracker ==
    [][\A estimate \in Estimates :
          Track(estimate) =>
              /\ ft_fresh => /\ ft_result' = NoWarp
                             /\ m_PreviousFrame' = ft_next
                             /\ m_TrackingQuality' = m_TrackingQuality
                             /\ m_FrameInitialized'
              /\ ft_result' # NoWarp => /\ ~ft_fresh
                                        /\ m_FrameInitialized
                                        /\ ft_result' = WarpField(m_PreviousFrame, ft_next)]_vars

\* a track() right after a restart() that followed a successful track()
C18_Witness ==
    /\ ft_next >= 4
    /\ m_PreviousFrame = ft_next - 1
    /\ ft_result = NoWarp
    /\ m_TrackingQuality = [inliers |-> 150, matched |-> 200]
    /\ m_FrameInitialized
    /\ ~ft_fresh

----------------------------------------------------------------------------
(* SpatialMap<T>: the preconditions *)

\* the call failed its assertion and wrote nothing
failed_unchanged == last'.ret = FALSE /\ UNCHANGED mapState

\* C19: a call whose precondition is violated fails its assertion with the
\* link table, the data array and the geometry as before the call:
\* place_at / emplace_at with an invalid key, place / emplace / operator[]
\* (through key_of) with a position outside the input region, remove / at
\* with a key that is not contained, rescale with a resolution below 1 or
\* an input region smaller than the resolution.
C19_PreconditionsBeforeMutation ==
    [][/\ \A key \in Keys, item \in Items :
             ( /\ ~is_key_valid(key, m_MapResolution)
               /\ \/ PlaceAt(key, item) \/ PlaceAtInvalid(key, item)
                  \/ EmplaceAt(key, item) \/ EmplaceAtInvalid(key, item) )
                 => failed_unchanged
       /\ \A position \in Positions, item \in Items :
             ( /\ ~in_region(position, m_InputRegion)
               /\ \/ Place(position, item) \/ PlaceOutside(position, item)
                  \/ Emplace(position, item) \/ EmplaceOutside(position, item)
                  \/ Index(position) )
                 => failed_unchanged
       /\ \A key \in Keys :
             ( /\ key \notin Contained
               /\ Remove(key) \/ RemoveAbsent(key) \/ At(key) )
                 => failed_unchanged
       /\ \A g \in Geometries \cup InvalidGeometries :
             ( /\ \/ g.resolution.width < 1 \/ g.resolution.height < 1
                  \/ g.region.width < g.resolution.width
                  \/ g.region.height < g.resolution.height
               /\ Rescale(g.resolution, g.region) \/ RescaleInvalid(g.resolution, g.region) )
                 => failed_unchanged
      ]_vars

----------------------------------------------------------------------------
(* VSFilter: the buffers after reset_buffers *)

\* a step that runs reset_buffers(): reset(), or configure() with a new
\* radius through prepare_buffers()
runs_reset_buffers ==
    \/ Reset
    \/ \E new_radius \in Radii, crop_percentage \in CropPercentages, test_mode \in BOOLEAN :
          /\ m_SmoothingRadius # new_radius
          /\ Configure(new_radius, crop_percentage, test_mode)

\* C20: after reset_buffers() under the radius R of prepare_buffers (even,
\* at least 2) the frame queue is empty and the trajectory holds exactly
\* R - 1 elements, each the identity frame vector; the capacities are R + 2
\* and 2R + 1, so the trajectory's window is wider than the frame queue's,
\* as the assertion on entry of the call requires.
C20_ResetBuffersSeedsTrajectory ==
    [][runs_reset_buffers =>
          /\ m_SmoothingRadius' >= SMOOTHING_RADIUS_MIN /\ m_SmoothingRadius' % 2 = 0
          /\ elements(m_FrameQueue') = 0
          /\ elements(m_Trajectory') = m_SmoothingRadius' - 1
          /\ \A i \in 1 .. elements(m_Trajectory') :
                m_Trajectory'.items[i] = FrameVector(Identity, Identity)
          /\ window_size(m_FrameQueue') = m_SmoothingRadius' + 2
          /\ window_size(m_Trajectory') = 2 * m_SmoothingRadius' + 1
          /\ window_size(m_Trajectory') > window_size(m_FrameQueue')
      ]_vars

\* the buffers of radius 4 just reset: three seeded elements, after calls
\* that had filled them
C20_Witness ==
    /\ m_SmoothingRadius = 4
    /\ vs_calls = 0
    /\ vs_next > 6
    /\ elements(m_FrameQueue) = 0
    /\ elements(m_Trajectory) = 3

----------------------------------------------------------------------------
(* VSFilter: the camera path *)

\* C21: a process() call finds a previous element in the trajectory (the
\* configured trajectory is never empty), every element's displacement is
\* its predecessor's displacement plus its own velocity, and the newest
\* displacement is the sum of all velocities tracked since the last
\* reset_buffers(), starting from the identity of the seeded elements; the
\* elements evicted from the window stay counted.
C21_DisplacementIsRunningSum ==
    m_SmoothingRadius >= SMOOTHING_RADIUS_MIN =>
        /\ elements(m_Trajectory) >= 1
        /\ \A i \in 2 .. elements(m_Trajectory) :
              m_Trajectory.items[i].displacement =
                  m_Trajectory.items[i - 1].displacement + m_Trajectory.items[i].velocity
        /\ newest(m_Trajectory).displacement = vs_path
        /\ vs_calls = 0 =>
              \A i \in 1 .. elements(m_Trajectory) :
                  m_Trajectory.items[i] = FrameVector(Identity, Identity)

\* a full window of radius 2 that has evicted tracked motion: the oldest
\* element already carries a displacement, and the path has moved on
C21_Witness ==
    /\ m_SmoothingRadius = 2
    /\ full(m_Trajectory)
    /\ vs_calls >= 7
    /\ oldest(m_Trajectory).displacement >= 2
    /\ vs_path > oldest(m_Trajectory).displacement

----------------------------------------------------------------------------
(* SpatialMap<T>: indexing by position *)

\* C22: operator[](p) for a position p inside the input region: when the
\* cell key_of(p) is occupied the call changes nothing and returns the
\* value stored for that key; when it is empty the call appends exactly one
\* default-constructed entry for the key, so that contains(key_of(p)) holds
\* afterwards, size() has grown by one, and every other entry and every
\* other link is as before.
C22_IndexReturnsOrInserts ==
    [][\A position \in Positions :
          (in_region(position, m_InputRegion) /\ Index(position)) =>
              LET key  == key_of(position, m_InputRegion, m_KeySize)
                  cell == resolve_spatial_key(key, m_MapResolution)
              IN  IF key \in Contained
                  THEN /\ UNCHANGED mapState
                       /\ \E item \in Items \cup {DefaultItem} :
                             /\ at_returns(m_Map, m_Data, m_MapResolution, key, item)
                             /\ m_Data[fetch_data_link(m_Map, key, m_MapResolution) + 1]
                                    = Entry(key, item)
                  ELSE /\ key \in ContainedNext
                       /\ size(m_Data') = size(m_Data) + 1
                       /\ m_Data' = Append(m_Data, Entry(key, DefaultItem))
                       /\ at_returns(m_Map', m_Data', m_MapResolution', key, DefaultItem)
                       /\ \A c \in DOMAIN m_Map : c # cell => m_Map'[c] = m_Map[c]
                       /\ UNCHANGED <<m_MapResolution, m_InputRegion, m_KeySize>>
      ]_vars

----------------------------------------------------------------------------
(* SpatialMap<T>: the distribution quality as a formula *)

\* sector_size in distribution_quality
sector_size_of(resolution) ==
    [width  |-> float_div(resolution.width, sectors),
     height |-> float_div(resolution.height, sectors)]

\* the sector of the 4x4 grid a key lies in
sector_of(key, sector_size) ==
    resolve_spatial_key(simplify_key(key.x, key.y, 1, sector_size),
                        [width |-> sectors, height |-> sectors])

\* every entry (by its index) with its sector
sector_pairs(data, sector_size) ==
    { <<i, sector_of(data[i].key, sector_size)>> : i \in 1 .. Len(data) }

\* the number of entries of each sector
sector_counts(pairs) ==
    [b \in 0 .. (sectors * sectors - 1) |-> Cardinality({ p \in pairs : p[2] = b })]

\* the sum over the sectors from b on of max(0, count - ideal)
RECURSIVE total_excess(_, _, _)
total_excess(counts, ideal, b) ==
    IF b >= sectors * sectors THEN 0
    ELSE (IF counts[b] > ideal THEN counts[b] - ideal ELSE 0)
         + total_excess(counts, ideal, b + 1)

\* C23: for a non-empty map of a resolution above 4 in both dimensions
\* distribution_quality() is 1 - E / (n - ideal), with n = size(),
\* ideal = floor(n / 16) and E the sum over the 16 sectors of
\* max(0, entries of the sector - ideal); it is 0 when every entry lies in
\* one sector.
C23_QualityFormula ==
    ( /\ last.op = "distribution_quality"
      /\ ~is_empty(m_Data)
      /\ m_MapResolution.width > sectors /\ m_MapResolution.height > sectors ) =>
        \E sector_size \in { sector_size_of(m_MapResolution) } :
        \E pairs \in { sector_pairs(m_Data, sector_size) } :
            LET counts == sector_counts(pairs)
                n      == size(m_Data)
                ideal  == n \div (sectors * sectors)
                E      == total_excess(counts, ideal, 0)
            IN  /\ n - ideal > 0
                /\ quality.den > 0
                /\ quality.num * (n - ideal) = quality.den * ((n - ideal) - E)
                /\ (\E b \in DOMAIN counts : counts[b] = n) => quality.num = 0

\* the quality of a map of more than 16 entries (ideal count 1) spread
\* over several sectors, some of them above the ideal count
C23_Witness ==
    /\ last.op = "distribution_quality"
    /\ m_MapResolution.width > sectors /\ m_MapResolution.height > sectors
    /\ size(m_Data) > sectors * sectors
    /\ 0 < quality.num /\ quality.num < quality.den
    /\ \E pairs \in { sector_pairs(m_Data, sector_size_of(m_MapResolution)) } :
       \E b \in 0 .. (sectors * sectors - 1) : sector_counts(pairs)[b] >= 3

----------------------------------------------------------------------------
(* CompositeFilter: the properties *)

\* the filters of the chain that are enabled, by index
enabled_filters == { i \in 1 .. Len(filter_chain) : m_FilterRunState[i] }

\* the greatest index of a non-empty set of indices
last_index(indices) == CHOOSE i \in indices : \A j \in indices : j <= i

\* what the enabled filter i is to receive: the output, after the call, of
\* the enabled filter before it, or the input of the call
fed_to(i, input) ==
    LET before == { j \in enabled_filters : j < i }
    IN  IF before = {} THEN input ELSE m_FilterOutputs'[last_index(before)]

\* C24: process runs exactly the enabled filters, in chain order, each on
\* the output of the enabled filter before it (the first on the input); a
\* disabled filter is not invoked and its output frame stays as it was; the
\* output is the last enabled filter's output, or the input when no filter
\* is enabled or the chain is empty.
C24_EnabledFiltersInOrder ==
    [][\A input \in Inputs :
          CFProcess(input) =>
              /\ Len(cf_invoked') = Cardinality(enabled_filters)
              /\ { cf_invoked'[k].index : k \in 1 .. Len(cf_invoked') } = enabled_filters
              /\ \A k \in 1 .. Len(cf_invoked') :
                    /\ k > 1 => cf_invoked'[k - 1].index < cf_invoked'[k].index
                    /\ cf_invoked'[k].input = fed_to(cf_invoked'[k].index, input)
              /\ \A i \in 1 .. Len(filter_chain) :
                    m_FilterOutputs'[i] =
                        IF i \in enabled_filters
                        THEN filter_process(filter_chain[i], fed_to(i, input))
                        ELSE m_FilterOutputs[i]
              /\ cf_output' = IF enabled_filters = {} THEN input
                              ELSE m_FilterOutputs'[last_index(enabled_filters)]
      ]_vars

\* a chain of two different filters with the first disabled has processed
\* a frame: the output is the second filter's, applied to the input
C24_Witness ==
    /\ cf_last.op = "process"
    /\ Len(filter_chain) = 2 /\ filter_chain[1] # filter_chain[2]
    /\ ~m_FilterRunState[1] /\ m_FilterRunState[2]
    /\ cf_input.source = 2
    /\ cf_output = Frame(2, <<filter_chain[2]>>)
    /\ m_FilterOutputs[1].source = 1

\* C25: after configure(settings) the run-state and output vectors have the
\* length of the new chain and every filter is enabled, whatever flags
\* were set before; disable_filter(i) and enable_filter(i) change the flag
\* of filter i and nothing else.
C25_ConfigureEnablesAll ==
    [][/\ \A chain \in Chains :
             CFConfigure(chain) =>
                 /\ filter_chain' = chain
                 /\ Len(m_FilterRunState') = Len(chain)
                 /\ Len(m_FilterOutputs') = Len(chain)
                 /\ \A i \in 1 .. Len(chain) : m_FilterRunState'[i]
       /\ \A index \in 1 .. MaxChain :
             (DisableFilter(index) \/ EnableFilter(index)) =>
                 /\ DisableFilter(index) => ~m_FilterRunState'[index]
                 /\ EnableFilter(index) => m_FilterRunState'[index]
                 /\ Len(m_FilterRunState') = Len(m_FilterRunState)
                 /\ \A i \in 1 .. Len(m_FilterRunState) :
                       i # index => m_FilterRunState'[i] = m_FilterRunState[i]
                 /\ UNCHANGED <<filter_chain, m_FilterOutputs>>
      ]_vars

\* configure() was called while a filter was disabled, with a chain that
\* keeps that filter's place
C25_Witness ==
    /\ cf_last = CFCall("configure", 1)
    /\ Len(filter_chain) = 2
    /\ m_FilterRunState = <<TRUE, TRUE>>

----------------------------------------------------------------------------
(* VSFilter: configure and the buffers *)

\* C26: configure() with the radius the filter already has leaves the
\* frame queue and the trajectory as they are (a ready stabilisation stays
\* ready); configure() with another radius runs prepare_buffers, which
\* resizes and resets both buffers.
C26_ConfigureKeepsBuffers ==
    [][\A new_radius \in Radii, crop_percentage \in CropPercentages, test_mode \in BOOLEAN :
          Configure(new_radius, crop_percentage, test_mode) =>
              IF new_radius = m_SmoothingRadius
              THEN /\ UNCHANGED <<m_SmoothingRadius, m_FrameQueue, m_Trajectory>>
                   /\ stabilisation_ready => stabilisation_ready'
              ELSE /\ m_SmoothingRadius' = new_radius
                   /\ m_FrameQueue' = clear(resize(m_FrameQueue, new_radius + 2))
                   /\ elements(m_Trajectory') = new_radius - 1
                   /\ window_size(m_Trajectory') = 2 * new_radius + 1
                   /\ ~stabilisation_ready'
      ]_vars

\* configure() with the unchanged radius 4 has met a ready stabilisation,
\* which is still ready
C26_Witness ==
    /\ vs_kept
    /\ m_SmoothingRadius = 4
    /\ full(m_FrameQueue) /\ full(m_Trajectory)

----------------------------------------------------------------------------
(* SpatialMap<T>: size and capacity *)

\* C27: size() never exceeds capacity(), the number of cells
\* resolution.width * resolution.height, and so the load returned by
\* distribution_quality() for a resolution of at most 4 in a dimension is
\* at most 1.
C27_SizeWithinCapacity ==
    /\ capacity(m_Map) = m_MapResolution.width * m_MapResolution.height
    /\ size(m_Data) <= capacity(m_Map)
    /\ ( /\ last.op = "distribution_quality"
         /\ m_MapResolution.width <= sectors \/ m_MapResolution.height <= sectors ) =>
           quality.num <= quality.den

----------------------------------------------------------------------------
(* SpatialMap<T>: the keys of integer positions *)

\* C28: for a resolution and an input region that rescale accepts, the key
\* key_of returns for an integer position that is within_bounds is valid:
\* its column is below resolution.width and its row below
\* resolution.height, so that place, emplace and operator[] pass the
\* validity assertion.
C28_KeyOfIsValid ==
    last.op = "key_of" => is_key_valid(probe.key, m_MapResolution)

----------------------------------------------------------------------------
(* VSFilter: the host frames *)

\* the frames the host has handed to process()
handed_in == 1 .. (vs_next - 1)

\* C29: every host frame handed to process() is disposed of exactly once:
\* it is returned to the host by process() or released by reset_buffers(),
\* never both, and a frame that is neither is still held by the frame
\* queue, whose frames the next reset_buffers() (also the destructor's)
\* releases.
C29_FramesDisposedOnce ==
    \A frame \in handed_in :
        /\ ~(frame \in vs_returned /\ frame \in vs_released)
        /\ \/ frame \in vs_returned
           \/ frame \in vs_released
           \/ frame \in released_frames(m_FrameQueue)

\* C30: every reset_buffers() call that reaches its loop leaves it again,
\* whatever called it: reset(), configure() or ~VSFilter(), the destructor of
\* a filter that was never configured included
C30_ResetBuffersTerminates == (rb_pc = "loop") ~> (rb_pc # "loop")

\* C31: between two resets of the buffers process() returns the input frames
\* in arrival order: nothing until the window has filled, then the first
\* frame handed in since the reset, and from then on, call after call, the
\* frame that arrived next after the one returned before; no frame is
\* skipped, returned twice or returned out of order.
C31_FramesInArrivalOrder ==
    [][\A velocity \in Velocities :
          Process(velocity) =>
              /\ vs_calls' <= m_SmoothingRadius + 1 => vs_out' = 0
              /\ vs_calls' = m_SmoothingRadius + 2 => vs_out' = vs_next - vs_calls
              /\ vs_calls' > m_SmoothingRadius + 2 => vs_out' = vs_out + 1
      ]_vars

\* the third frame in a row returned at radius 2, after frames that an
\* earlier reset of the buffers has taken away
C31_Witness ==
    /\ m_SmoothingRadius = 2
    /\ vs_calls = m_SmoothingRadius + 4
    /\ vs_next - 1 - vs_calls >= 1
    /\ vs_out = vs_next - vs_calls + 2

====
